---- MODULE Spec2Model ----
(***************************************************************************)
(* Model of the storylet pool refresh engine: the cooperative scheduler of *)
(* node/src/StoryletManager.ts (pool registry, refresh / tick state        *)
(* machine, weighted selector, play-state persistence).                    *)
(*                                                                         *)
(* The narrative engine (inkjs Story) is an external collaborator: what    *)
(* story.EvaluateFunction returns during one call of the manager is an     *)
(* input of the action that models the call.                               *)
(***************************************************************************)
EXTENDS Integers, Sequences, FiniteSets, TLC

\* ------------------------------------------------------------------ bounds
\* storyletsPerTick is assigned values of 1..MaxBudget (and keeps its default)
MaxBudget == 1

\* The most callbacks of loop the event loop runs
MaxLoops == 3

\* ---------------------------------------------------------------- constants
DEFAULT_BUDGET == 5
NULL == "null"
NEEDS_REFRESH == "NEEDS_REFRESH"
REFRESHING == "REFRESHING"
REFRESH_COMPLETE == "REFRESH_COMPLETE"

\* ---------------------------------------------------------- sequence helpers
Range(s) == {s[i] : i \in 1..Len(s)}

Includes(s, x) == \E i \in 1..Len(s) : s[i] = x

RECURSIVE Count(_, _)
Count(s, x) ==
    IF s = <<>> THEN 0
    ELSE (IF Head(s) = x THEN 1 ELSE 0) + Count(Tail(s), x)

RECURSIVE Repeat(_, _)
Repeat(x, n) == IF n <= 0 THEN <<>> ELSE <<x>> \o Repeat(x, n - 1)

Min(a, b) == IF a < b THEN a ELSE b

Max(a, b) == IF a > b THEN a ELSE b

\* --------------------------------------------------- the story (collaborator)
\* The pools the host names
PoolNames == {"main", "side"}

\* Named content of the compiled story: knots and functions.  a_x is a knot
\* without predicate function; _a is the group predicate of name "a"; names
\* "b" and "c" have no group predicate.
AllKnotIDs ==
    <<"a_1", "_a_1", "a_x", "_a", "b_1", "_b_1",
      "c_1", "_c_1", "c_2", "_c_2", "c_3", "_c_3">>

\* '_' + s
Underscore(s) ==
    CASE s = "a" -> "_a"
      [] s = "b" -> "_b"
      [] s = "a_1" -> "_a_1"
      [] s = "a_x" -> "_a_x"
      [] s = "b_1" -> "_b_1"
      [] s = "c" -> "_c"
      [] s = "c_1" -> "_c_1"
      [] s = "c_2" -> "_c_2"
      [] s = "c_3" -> "_c_3"
      [] OTHER -> "_?"

\* knotID.startsWith(name + '_')
StartsWithPrefix(knotID, name) ==
    CASE name = "a" -> knotID \in {"a_1", "a_x"}
      [] name = "b" -> knotID \in {"b_1"}
      [] name = "c" -> knotID \in {"c_1", "c_2", "c_3"}
      [] OTHER -> FALSE

\* story.TagsForContentAtPath(knotID): the raw tags, each split at its first
\* colon into the text before it and the text after it (NULL for a bare tag)
RawTags(knotID) ==
    CASE knotID = "a_1" -> <<[key |-> "once", raw |-> NULL], [key |-> "loc", raw |-> "library"]>>
      [] knotID = "b_1" -> <<[key |-> "Loc", raw |-> "library"], [key |-> "night", raw |-> "TRUE"]>>
      [] knotID = "c_1" -> <<[key |-> "loc", raw |-> "garden"]>>
      [] knotID = "c_3" -> <<[key |-> "once", raw |-> NULL]>>
      [] OTHER -> <<>>

\* String.prototype.toLowerCase on the strings of the story and of the queries
ToLowerCase(str) ==
    CASE str = "Loc" -> "loc"
      [] str = "LOC" -> "loc"
      [] str = "TRUE" -> "true"
      [] str = "Once" -> "once"
      [] OTHER -> str

\* A tag value: a boolean or a string
BoolValue(b) == [type |-> "boolean", v |-> IF b THEN "true" ELSE "false"]
StringValue(str) == [type |-> "string", v |-> str]

\* parseTags(rawTags)[key], undefined when the key is absent: later tags of the
\* same name overwrite earlier ones
RECURSIVE parseTags(_, _)
parseTags(rawTags, key) ==
    IF rawTags = <<>> THEN [type |-> "undefined", v |-> "undefined"]
    ELSE LET tag == rawTags[Len(rawTags)]
         IN IF ToLowerCase(tag.key) # key
            THEN parseTags(SubSeq(rawTags, 1, Len(rawTags) - 1), key)
            ELSE IF tag.raw = NULL THEN BoolValue(TRUE)
            ELSE IF ToLowerCase(tag.raw) = "true" THEN BoolValue(TRUE)
            ELSE IF ToLowerCase(tag.raw) = "false" THEN BoolValue(FALSE)
            ELSE StringValue(tag.raw)

\* Ids that can be in a deck
StoryletIds == {"a_1", "b_1", "c_1", "c_2", "c_3"}

\* What story.EvaluateFunction can give back: a boolean (v = 1 for true), a
\* number (v counts halves: 4 is 2, 1 is 0.5, -1 is -0.5), a thrown error, or a value
\* of another type.
Results ==
    {[kind |-> "boolean", v |-> 1], [kind |-> "boolean", v |-> 0],
     [kind |-> "number", v |-> -1], [kind |-> "number", v |-> 1],
     [kind |-> "number", v |-> 4],
     [kind |-> "throws", v |-> 0], [kind |-> "other", v |-> 0]}

\* The answers the interleaving specification draws predicate results from
CoarseResults ==
    {[kind |-> "boolean", v |-> 0], [kind |-> "number", v |-> 4]}

\* and group predicate results from
CoarseGateResults ==
    {[kind |-> "boolean", v |-> 1], [kind |-> "boolean", v |-> 0]}

\* The answers the specification of the group predicates draws them from
GateResults ==
    {[kind |-> "boolean", v |-> 1], [kind |-> "boolean", v |-> 0],
     [kind |-> "number", v |-> 1], [kind |-> "throws", v |-> 0]}

\* Math.floor of a number given in halves
Floor(halves) == halves \div 2

\* ------------------------------------------------------------------- state
VARIABLES
    pools,              \* _pools: pool name -> PoolState, registered pools only
    poolOrder,          \* insertion order of _pools
    storyletsPerTick,   \* public field
    lastOp,             \* the last call of the host and what it returned
    fired,              \* onRefreshComplete(pool) calls made by the last call
    evaluated,          \* story.EvaluateFunction calls made by the last call, each
                        \* with the pool whose deck it was made for
    run,                \* per pool, history of the refresh in progress or last done
    unanswered,         \* per pool, refresh calls counted against completion events
    doneAtStart,        \* per pool, the once ids that were played when a refresh of
                        \* it began, since it was last reset or loaded
    worker,             \* the worker thread: its story, its pools, the message it
                        \* handled last and what it posted and evaluated for it
    runner              \* the closure of runUntilReady and the callbacks it has
                        \* pending in the event loop

vars == <<pools, poolOrder, storyletsPerTick, lastOp, fired, evaluated, run,
          unanswered, doneAtStart, worker, runner>>

\* The manager and its histories
managerVars == <<pools, poolOrder, storyletsPerTick, lastOp, fired, evaluated, run,
                 unanswered, doneAtStart>>

\* The two histories that only some specifications keep
tallies == <<unanswered, doneAtStart>>

\* new Storylet(knotID)
Storylet(knotID) ==
    [knotID |-> knotID, played |-> FALSE, once |-> FALSE, groupPredicate |-> NULL]

\* The PoolState literal of getOrCreatePoolState / getPoolState
EmptyPoolState ==
    [deck |-> <<>>, refreshList |-> <<>>, hand |-> <<>>, handWeighted |-> <<>>,
     state |-> NEEDS_REFRESH]

\* History of one refresh of a pool: the records tick has shifted off the
\* queue with what their predicate answered, the tick() calls that worked on
\* it, and the size of the deck when refresh built the queue.
NoRun == [evals |-> <<>>, ticks |-> 0, deckSize |-> 0]

Op(name, pool, ret) == [name |-> name, pool |-> pool, ret |-> ret]

\* ------------------------------------------------------------ deck (a Map)
DeckHas(deck, knotID) == \E i \in 1..Len(deck) : deck[i].knotID = knotID

DeckGet(deck, knotID) ==
    deck[CHOOSE i \in 1..Len(deck) : deck[i].knotID = knotID]

\* Map.set: an existing key keeps its position, a new key goes last
DeckSet(deck, s) ==
    IF DeckHas(deck, s.knotID)
    THEN [i \in 1..Len(deck) |-> IF deck[i].knotID = s.knotID THEN s ELSE deck[i]]
    ELSE Append(deck, s)

\* refreshList holds references to Storylet objects.  An entry either is the
\* object the deck holds now (inDeck) or an object the deck held when the list
\* was built and that addStorylets has since replaced; only objects of the
\* deck are ever written, so a replaced object keeps its fields.
Ref(knotID) == [knotID |-> knotID, inDeck |-> TRUE, played |-> FALSE, once |-> FALSE]

Deref(poolState, e) ==
    IF e.inDeck THEN DeckGet(poolState.deck, e.knotID)
    ELSE [knotID |-> e.knotID, played |-> e.played, once |-> e.once,
          groupPredicate |-> NULL]

\* ------------------------------------------------------------ registration
\* The host names pool "main" before it names pool "side": a call that would
\* create "side" comes after "main" exists.
getOrCreatePoolState(ps, pool) ==
    IF pool \in DOMAIN ps THEN ps ELSE ps @@ (pool :> EmptyPoolState)

getOrCreateOrder(order, pool) ==
    IF Includes(order, pool) THEN order ELSE Append(order, pool)

\* deck.set(knotID, storylet) of addStorylets, seen from the pool: the object
\* the deck held for knotID stays referenced by refreshList
ReplaceInPool(poolState, s) ==
    [poolState EXCEPT
        !.refreshList =
            [i \in 1..Len(@) |->
                IF @[i].inDeck /\ @[i].knotID = s.knotID
                THEN LET old == DeckGet(poolState.deck, s.knotID)
                     IN [knotID |-> s.knotID, inDeck |-> FALSE,
                         played |-> old.played, once |-> old.once]
                ELSE @[i]],
        !.deck = DeckSet(@, s)]

RECURSIVE addKnots(_, _, _, _)
addKnots(poolState, name, groupPredicate, i) ==
    IF i > Len(AllKnotIDs) THEN poolState
    ELSE LET knotID == AllKnotIDs[i]
         IN IF ~StartsWithPrefix(knotID, name) THEN
                addKnots(poolState, name, groupPredicate, i + 1)
            ELSE IF ~Includes(AllKnotIDs, Underscore(knotID)) THEN
                addKnots(poolState, name, groupPredicate, i + 1)
            ELSE
                addKnots(
                    ReplaceInPool(poolState,
                        [Storylet(knotID) EXCEPT !.once = (parseTags(RawTags(knotID), "once") = BoolValue(TRUE)),
                                                 !.groupPredicate = groupPredicate]),
                    name, groupPredicate, i + 1)

addStorylets(ps, name, pool) ==
    LET groupPredFn == Underscore(name)
        groupPredicate == IF Includes(AllKnotIDs, groupPredFn) THEN groupPredFn ELSE NULL
        created == getOrCreatePoolState(ps, pool)
    IN [created EXCEPT ![pool] = addKnots(@, name, groupPredicate, 1)]

AddStorylets(name, pool) ==
    /\ pool = "side" => "main" \in DOMAIN pools
    /\ pools' = addStorylets(pools, name, pool)
    /\ poolOrder' = getOrCreateOrder(poolOrder, pool)
    /\ run' = IF pool \in DOMAIN run THEN run ELSE run @@ (pool :> NoRun)
    /\ lastOp' = Op("addStorylets", pool, NULL)
    /\ fired' = <<>>
    /\ evaluated' = <<>>
    /\ UNCHANGED <<storyletsPerTick, worker, runner>>

\* ------------------------------------------------------------------ refresh
\* Distinct group predicates of a deck, in the order buildRefreshList meets them
RECURSIVE GroupPredicates(_)
GroupPredicates(deck) ==
    IF deck = <<>> THEN <<>>
    ELSE LET rest == GroupPredicates(SubSeq(deck, 1, Len(deck) - 1))
             gp == deck[Len(deck)].groupPredicate
         IN IF gp # NULL /\ ~Includes(rest, gp) THEN Append(rest, gp) ELSE rest

\* The try/catch of buildRefreshList around EvaluateFunction(gp)
GroupActive(retVal) ==
    CASE retVal.kind = "boolean" -> retVal.v = 1
      [] retVal.kind = "number" -> retVal.v > 0
      [] retVal.kind = "throws" -> TRUE
      [] OTHER -> TRUE

\* buildRefreshList that queues the whole deck
buildRefreshList_all(poolState, gateAnswers) ==
    [i \in 1..Len(poolState.deck) |-> Ref(poolState.deck[i].knotID)]

\* gateAnswers: what EvaluateFunction gives for each group predicate
buildRefreshList(poolState, gateAnswers) ==
    LET groupResults ==
            [gp \in Range(GroupPredicates(poolState.deck)) |-> GroupActive(gateAnswers[gp])]
        keep(s) == ~(s.groupPredicate # NULL /\ s.groupPredicate \in DOMAIN groupResults
                     /\ ~groupResults[s.groupPredicate])
        list == SelectSeq(poolState.deck, keep)
    IN [i \in 1..Len(list) |-> Ref(list[i].knotID)]

StartRefresh(poolState, gateAnswers) ==
    [poolState EXCEPT !.hand = <<>>, !.handWeighted = <<>>,
                      !.refreshList = buildRefreshList(poolState, gateAnswers),
                      !.state = REFRESHING]

\* What EvaluateFunction gives buildRefreshList(ps[p]): gateAnswers holds an
\* answer for each call site <<pool, group predicate>>, one call of
\* buildRefreshList evaluating each group predicate of its deck once
AnswersFor(ps, p, gateAnswers) ==
    [gp \in Range(GroupPredicates(ps[p].deck)) |-> gateAnswers[<<p, gp>>]]

\* refresh without the REFRESHING test of its named branch
refresh_unguarded(ps, order, pool, gateAnswers) ==
    IF pool # NULL THEN
        LET created == getOrCreatePoolState(ps, pool)
        IN [pools |-> [created EXCEPT
                          ![pool] = StartRefresh(@, AnswersFor(created, pool, gateAnswers))],
            built |-> <<pool>>]
    ELSE [pools |-> [p \in DOMAIN ps |->
                        StartRefresh(ps[p], AnswersFor(ps, p, gateAnswers))],
          built |-> order]

\* The pools after refresh(pool), and the pools whose refreshList the call
\* built, in the order it built them
refresh(ps, order, pool, gateAnswers) ==
    IF pool # NULL THEN
        LET created == getOrCreatePoolState(ps, pool)
        IN IF created[pool].state = REFRESHING THEN [pools |-> created, built |-> <<>>]
           ELSE [pools |-> [created EXCEPT
                               ![pool] = StartRefresh(@, AnswersFor(created, pool, gateAnswers))],
                 built |-> <<pool>>]
    ELSE [pools |-> [p \in DOMAIN ps |->
                        StartRefresh(ps[p], AnswersFor(ps, p, gateAnswers))],
          built |-> order]

\* The call sites <<pool, group predicate>> of the decks a refresh call is about
GatesOf(ps, pool) ==
    UNION {{<<p, gp>> : gp \in Range(GroupPredicates(ps[p].deck))} :
           p \in IF pool # NULL THEN {pool} \cap DOMAIN ps ELSE DOMAIN ps}

RECURSIVE GateCalls_eager(_, _, _)
RECURSIVE GateCalls(_, _, _)

\* The calls of a refresh that weighs the first queued storylet of each pool
\* at once
GateCalls_eager(ps, seq, gateAnswers) ==
    IF seq = <<>> THEN <<>>
    ELSE LET gps == GroupPredicates(ps[Head(seq)].deck)
             list == ps[Head(seq)].refreshList
         IN [i \in 1..Len(gps) |->
                [fn |-> gps[i], res |-> gateAnswers[<<Head(seq), gps[i]>>],
                 pool |-> Head(seq)]]
            \o (IF list = <<>> THEN <<>>
                ELSE <<[fn |-> Underscore(list[1].knotID),
                        res |-> [kind |-> "boolean", v |-> 1], pool |-> Head(seq)]>>)
            \o GateCalls_eager(ps, Tail(seq), gateAnswers)

\* The EvaluateFunction calls of buildRefreshList for the pools of seq
GateCalls(ps, seq, gateAnswers) ==
    IF seq = <<>> THEN <<>>
    ELSE LET gps == GroupPredicates(ps[Head(seq)].deck)
         IN [i \in 1..Len(gps) |->
                [fn |-> gps[i], res |-> gateAnswers[<<Head(seq), gps[i]>>],
                 pool |-> Head(seq)]]
            \o GateCalls(ps, Tail(seq), gateAnswers)

RefreshWith(pool, G) ==
    /\ pool = "side" => "main" \in DOMAIN pools
    /\ \E gateAnswers \in [GatesOf(pools, pool) -> G] :
          LET r == refresh(pools, poolOrder, pool, gateAnswers)
          IN /\ pools' = r.pools
             /\ poolOrder' = IF pool # NULL THEN getOrCreateOrder(poolOrder, pool)
                             ELSE poolOrder
             /\ run' = [p \in DOMAIN r.pools |->
                           IF Includes(r.built, p)
                           THEN [NoRun EXCEPT !.deckSize = Len(r.pools[p].deck)]
                           ELSE run[p]]
             /\ evaluated' = GateCalls(r.pools, r.built, gateAnswers)
             /\ lastOp' = Op("refresh", pool, NULL)
             /\ fired' = <<>>
             /\ UNCHANGED <<storyletsPerTick, worker, runner>>

\* --------------------------------------------------------------------- tick
\* The answer NotAsked stands for "EvaluateFunction was not called"
NotAsked == [kind |-> "none", v |-> 0]

\* getWeighting that rounds a number up instead of down
getWeighting_ceil(storylet, answer) ==
    IF storylet.played /\ storylet.once THEN 0
    ELSE CASE answer.kind = "throws" -> 0
           [] answer.kind = "boolean" -> IF answer.v = 1 THEN 1 ELSE 0
           [] answer.kind = "number" -> Floor(answer.v + 1)
           [] OTHER -> 0

getWeighting(storylet, answer) ==
    IF storylet.played /\ storylet.once THEN 0
    ELSE CASE answer.kind = "throws" -> 0
           [] answer.kind = "boolean" -> IF answer.v = 1 THEN 1 ELSE 0
           [] answer.kind = "number" -> Floor(answer.v)
           [] OTHER -> 0

\* getWeighting reaches EvaluateFunction
Evaluates(storylet) == ~(storylet.played /\ storylet.once)

RECURSIVE drain_aborting(_, _, _)
RECURSIVE drain_unweighted(_, _, _)
RECURSIVE drain_unfiltered(_, _, _)
RECURSIVE drain(_, _, _)

\* The loop with a getWeighting that lets the error of a predicate out: the
\* record is off the queue and the passes after it are not made
drain_aborting(poolState, answers, count) ==
    IF count = 0 THEN poolState
    ELSE LET storylet == Deref(poolState, Head(poolState.refreshList))
             w == getWeighting(storylet, answers[storylet.knotID])
             shifted == [poolState EXCEPT !.refreshList = Tail(@)]
         IN IF answers[storylet.knotID].kind = "throws" THEN shifted
            ELSE drain_aborting(
                    IF w > 0
                    THEN [shifted EXCEPT !.hand = Append(@, storylet.knotID),
                                         !.handWeighted = @ \o Repeat(storylet.knotID, w)]
                    ELSE shifted,
                    answers, count - 1)

\* The loop pushing an id once to handWeighted whatever its weight
drain_unweighted(poolState, answers, count) ==
    IF count = 0 THEN poolState
    ELSE LET storylet == Deref(poolState, Head(poolState.refreshList))
             w == getWeighting(storylet, answers[storylet.knotID])
             shifted == [poolState EXCEPT !.refreshList = Tail(@)]
         IN drain_unweighted(
                IF w > 0
                THEN [shifted EXCEPT !.hand = Append(@, storylet.knotID),
                                     !.handWeighted = Append(@, storylet.knotID)]
                ELSE shifted,
                answers, count - 1)

\* The loop without the test "w > 0": every record shifted goes to hand
drain_unfiltered(poolState, answers, count) ==
    IF count = 0 THEN poolState
    ELSE LET storylet == Deref(poolState, Head(poolState.refreshList))
             w == getWeighting(storylet, answers[storylet.knotID])
             shifted == [poolState EXCEPT !.refreshList = Tail(@)]
         IN drain_unfiltered(
                [shifted EXCEPT !.hand = Append(@, storylet.knotID),
                                !.handWeighted = @ \o Repeat(storylet.knotID, w)],
                answers, count - 1)

\* The inner for loop of tick: count passes
drain(poolState, answers, count) ==
    IF count = 0 THEN poolState
    ELSE LET storylet == Deref(poolState, Head(poolState.refreshList))
             w == getWeighting(storylet, answers[storylet.knotID])
             shifted == [poolState EXCEPT !.refreshList = Tail(@)]
         IN drain(
                IF w > 0
                THEN [shifted EXCEPT !.hand = Append(@, storylet.knotID),
                                     !.handWeighted = @ \o Repeat(storylet.knotID, w)]
                ELSE shifted,
                answers, count - 1)

\* tickPool with the completion test off by one: completes with a record left
tickPool_early(poolState, answers, budget) ==
    IF poolState.state # REFRESHING THEN [pool |-> poolState, callback |-> FALSE]
    ELSE LET count == Min(budget, Len(poolState.refreshList))
             drained == drain(poolState, answers, count)
         IN IF Len(drained.refreshList) <= 1
            THEN [pool |-> [drained EXCEPT !.state = REFRESH_COMPLETE], callback |-> TRUE]
            ELSE [pool |-> drained, callback |-> FALSE]

\* tickPool without the budget: drains the whole queue
tickPool_all(poolState, answers, budget) ==
    IF poolState.state # REFRESHING THEN [pool |-> poolState, callback |-> FALSE]
    ELSE LET count == Len(poolState.refreshList)
             drained == drain(poolState, answers, count)
         IN IF Len(drained.refreshList) = 0
            THEN [pool |-> [drained EXCEPT !.state = REFRESH_COMPLETE], callback |-> TRUE]
            ELSE [pool |-> drained, callback |-> FALSE]

\* tickPool without the test of the pool's state
tickPool_any(poolState, answers, budget) ==
    LET count == Min(budget, Len(poolState.refreshList))
        drained == drain(poolState, answers, count)
    IN IF Len(drained.refreshList) = 0
       THEN [pool |-> [drained EXCEPT !.state = REFRESH_COMPLETE], callback |-> TRUE]
       ELSE [pool |-> drained, callback |-> FALSE]

\* tickPool that tests for completion before it drains
tickPool_late(poolState, answers, budget) ==
    IF poolState.state # REFRESHING THEN [pool |-> poolState, callback |-> FALSE]
    ELSE LET count == Min(budget, Len(poolState.refreshList))
             drained == drain(poolState, answers, count)
         IN IF Len(poolState.refreshList) = 0
            THEN [pool |-> [drained EXCEPT !.state = REFRESH_COMPLETE], callback |-> TRUE]
            ELSE [pool |-> drained, callback |-> FALSE]

\* The body of the loop of tick for one pool: the pool afterwards, and
\* whether onRefreshComplete was called for it
tickPool(poolState, answers, budget) ==
    IF poolState.state # REFRESHING THEN [pool |-> poolState, callback |-> FALSE]
    ELSE LET count == Min(budget, Len(poolState.refreshList))
             drained == drain(poolState, answers, count)
         IN IF Len(drained.refreshList) = 0
            THEN [pool |-> [drained EXCEPT !.state = REFRESH_COMPLETE], callback |-> TRUE]
            ELSE [pool |-> drained, callback |-> FALSE]

tick(ps, answers, budget) == [p \in DOMAIN ps |-> tickPool(ps[p], answers, budget)]

\* Storylets one tick shifts off the queue of a pool, in order
Shifted(poolState, budget) ==
    IF poolState.state # REFRESHING THEN <<>>
    ELSE [i \in 1..(Len(poolState.refreshList) - Len(tickPool(poolState,
                        [id \in StoryletIds |-> NotAsked], budget).pool.refreshList)) |->
             Deref(poolState, poolState.refreshList[i])]

\* Ids whose predicate one tick evaluates
Asked(ps, budget) ==
    {s.knotID : s \in {x \in UNION {Range(Shifted(ps[p], budget)) : p \in DOMAIN ps} :
                          Evaluates(x)}}

Evals(poolState, answers, budget) ==
    [i \in 1..Len(Shifted(poolState, budget)) |->
        LET s == Shifted(poolState, budget)[i]
        IN [id |-> s.knotID,
            res |-> IF Evaluates(s) THEN answers[s.knotID] ELSE NotAsked]]

RECURSIVE PredicateCalls(_, _, _, _)
PredicateCalls(ps, seq, answers, budget) ==
    IF seq = <<>> THEN <<>>
    ELSE LET asked == SelectSeq(Evals(ps[Head(seq)], answers, budget),
                                LAMBDA e : e.res # NotAsked)
         IN [i \in 1..Len(asked) |->
                [fn |-> Underscore(asked[i].id), res |-> asked[i].res, pool |-> Head(seq)]]
            \o PredicateCalls(ps, Tail(seq), answers, budget)

TickWith(R) ==
    \E asked \in [Asked(pools, storyletsPerTick) -> R] :
        LET answers == [id \in StoryletIds |->
                           IF id \in DOMAIN asked THEN asked[id] ELSE NotAsked]
            t == tick(pools, answers, storyletsPerTick)
        IN /\ pools' = [p \in DOMAIN pools |-> t[p].pool]
           /\ fired' = SelectSeq(poolOrder, LAMBDA p : t[p].callback)
           /\ evaluated' = PredicateCalls(pools, poolOrder, answers, storyletsPerTick)
           /\ run' = [p \in DOMAIN pools |->
                         IF pools[p].state = REFRESHING
                         THEN [run[p] EXCEPT
                                  !.evals = @ \o Evals(pools[p], answers, storyletsPerTick),
                                  !.ticks = @ + 1]
                         ELSE run[p]]
           /\ lastOp' = Op("tick", NULL, NULL)
           /\ UNCHANGED <<poolOrder, storyletsPerTick, worker, runner>>

\* ------------------------------------------------------- query / selection
\* areAllReady without the test of _pools.size
areAllReady_vacuous(ps) ==
    \A p \in DOMAIN ps : ps[p].state = REFRESH_COMPLETE

areAllReady(ps) ==
    IF Cardinality(DOMAIN ps) = 0 THEN FALSE
    ELSE \A p \in DOMAIN ps : ps[p].state = REFRESH_COMPLETE

markPlayedIn(poolState, knotID) ==
    [poolState EXCEPT
        !.deck = [i \in 1..Len(@) |->
                     IF @[i].knotID = knotID THEN [@[i] EXCEPT !.played = TRUE]
                     ELSE @[i]]]

\* markPlayed that reads the pool with getOrCreatePoolState
markPlayed_creating(ps, knotID, pool) ==
    IF pool # NULL
    THEN [getOrCreatePoolState(ps, pool) EXCEPT ![pool] = markPlayedIn(@, knotID)]
    ELSE [p \in DOMAIN ps |-> markPlayedIn(ps[p], knotID)]

markPlayed(ps, knotID, pool) ==
    IF pool # NULL
    THEN IF pool \in DOMAIN ps
         THEN [ps EXCEPT ![pool] = markPlayedIn(@, knotID)]
         ELSE ps
    ELSE [p \in DOMAIN ps |-> markPlayedIn(ps[p], knotID)]

MarkPlayed(knotID, pool) ==
    /\ pools' = markPlayed(pools, knotID, pool)
    /\ lastOp' = Op("markPlayed", pool, NULL)
    /\ fired' = <<>>
    /\ evaluated' = <<>>
    /\ UNCHANGED <<poolOrder, storyletsPerTick, run, worker, runner>>

getPlayableStorylets(ps, weighted, pool) ==
    IF pool \notin DOMAIN ps \/ ps[pool].state # REFRESH_COMPLETE THEN NULL
    ELSE IF weighted THEN ps[pool].handWeighted ELSE ps[pool].hand

\* pickPlayableStorylet without the test of the pool's state
pickPlayableStorylet_unready(ps, pool, i) ==
    IF pool \notin DOMAIN ps
    THEN [ret |-> NULL, pools |-> ps]
    ELSE IF Len(ps[pool].handWeighted) = 0 THEN [ret |-> NULL, pools |-> ps]
    ELSE LET knotID == ps[pool].handWeighted[i]
         IN [ret |-> knotID, pools |-> markPlayed(ps, knotID, pool)]

\* pickPlayableStorylet that marks the id in every pool
pickPlayableStorylet_fanout(ps, pool, i) ==
    IF pool \notin DOMAIN ps \/ ps[pool].state # REFRESH_COMPLETE
    THEN [ret |-> NULL, pools |-> ps]
    ELSE IF Len(ps[pool].handWeighted) = 0 THEN [ret |-> NULL, pools |-> ps]
    ELSE LET knotID == ps[pool].handWeighted[i]
         IN [ret |-> knotID, pools |-> markPlayed(ps, knotID, NULL)]

RECURSIVE getPlayableStoryletsWithTag_unready(_, _, _, _, _)
RECURSIVE getPlayableStoryletsWithTag(_, _, _, _, _)

\* getPlayableStoryletsWithTag without the test of the pool's state
getPlayableStoryletsWithTag_unready(ps, order, tagName, tagValue, pool) ==
    LET poolNames == IF pool # NULL THEN <<pool>> ELSE order
        key == ToLowerCase(tagName)
    IN IF poolNames = <<>> THEN <<>>
       ELSE LET p == Head(poolNames)
                rest == IF Len(poolNames) = 1 THEN <<>>
                        ELSE getPlayableStoryletsWithTag_unready(
                                 ps, Tail(poolNames), tagName, tagValue, NULL)
            IN IF p \notin DOMAIN ps THEN rest
               ELSE SelectSeq(ps[p].hand,
                              LAMBDA knotID : parseTags(RawTags(knotID), key) = tagValue)
                    \o rest

\* order is the order of _pools; with pool = NULL every pool of it is searched
getPlayableStoryletsWithTag(ps, order, tagName, tagValue, pool) ==
    LET poolNames == IF pool # NULL THEN <<pool>> ELSE order
        key == ToLowerCase(tagName)
    IN IF poolNames = <<>> THEN <<>>
       ELSE LET p == Head(poolNames)
                rest == IF Len(poolNames) = 1 THEN <<>>
                        ELSE getPlayableStoryletsWithTag(
                                 ps, Tail(poolNames), tagName, tagValue, NULL)
            IN IF p \notin DOMAIN ps \/ ps[p].state # REFRESH_COMPLETE THEN rest
               ELSE SelectSeq(ps[p].hand,
                              LAMBDA knotID : parseTags(RawTags(knotID), key) = tagValue)
                    \o rest

getFirstPlayableStoryletWithTag(ps, order, tagName, tagValue, pool) ==
    LET matches == getPlayableStoryletsWithTag(ps, order, tagName, tagValue, pool)
    IN IF Len(matches) > 0 THEN matches[1] ELSE NULL

\* What pickPlayableStorylet returns when Math.random() lands on index i
\* (counted from 1), and the pools it leaves
pickPlayableStorylet(ps, pool, i) ==
    IF pool \notin DOMAIN ps \/ ps[pool].state # REFRESH_COMPLETE
    THEN [ret |-> NULL, pools |-> ps]
    ELSE IF Len(ps[pool].handWeighted) = 0 THEN [ret |-> NULL, pools |-> ps]
    ELSE LET knotID == ps[pool].handWeighted[i]
         IN [ret |-> knotID, pools |-> markPlayed(ps, knotID, pool)]

PickPlayableStorylet(pool) ==
    \E i \in 1..Max(1, IF pool \in DOMAIN pools THEN Len(pools[pool].handWeighted) ELSE 0) :
        LET picked == pickPlayableStorylet(pools, pool, i)
        IN /\ pools' = picked.pools
           /\ lastOp' = Op("pickPlayableStorylet", pool, picked.ret)
           /\ fired' = <<>>
           /\ evaluated' = <<>>
           /\ UNCHANGED <<poolOrder, storyletsPerTick, run, worker, runner>>

\* ------------------------------------------------------------ reset / load
\* resetPoolState that leaves the queue as it is
resetPoolState_keepQueue(poolState) ==
    [poolState EXCEPT
        !.deck = [i \in 1..Len(@) |-> [@[i] EXCEPT !.played = FALSE]],
        !.hand = <<>>, !.handWeighted = <<>>,
        !.state = NEEDS_REFRESH]

resetPoolState(poolState) ==
    [poolState EXCEPT
        !.deck = [i \in 1..Len(@) |-> [@[i] EXCEPT !.played = FALSE]],
        !.refreshList = <<>>, !.hand = <<>>, !.handWeighted = <<>>,
        !.state = NEEDS_REFRESH]

reset(ps, pool) ==
    IF pool # NULL
    THEN IF pool \in DOMAIN ps THEN [ps EXCEPT ![pool] = resetPoolState(@)] ELSE ps
    ELSE [p \in DOMAIN ps |-> resetPoolState(ps[p])]

Reset(pool) ==
    /\ pools' = reset(pools, pool)
    /\ run' = [p \in DOMAIN run |-> IF pool \in {NULL, p} THEN NoRun ELSE run[p]]
    /\ lastOp' = Op("reset", pool, NULL)
    /\ fired' = <<>>
    /\ evaluated' = <<>>
    /\ UNCHANGED <<poolOrder, storyletsPerTick, worker, runner>>

\* A persisted blob, parsed: Object.entries order of pools, each with its
\* [knotID, played] pairs
Blobs ==
    { << >>,
      << [pool |-> "main", entries |-> << <<"a_1", TRUE>>, <<"a_x", TRUE>>, <<"b_1", FALSE>>,
                                          <<"c_3", TRUE>> >>],
         [pool |-> "gone", entries |-> << <<"b_1", TRUE>> >>] >> }

RECURSIVE applyEntries(_, _)
applyEntries(poolState, entries) ==
    IF entries = <<>> THEN poolState
    ELSE applyEntries(
            [poolState EXCEPT
                !.deck = [i \in 1..Len(@) |->
                             IF @[i].knotID = Head(entries)[1]
                             THEN [@[i] EXCEPT !.played = Head(entries)[2]]
                             ELSE @[i]]],
            Tail(entries))

RECURSIVE JSONstringify(_)
RECURSIVE JSONparse(_)
RECURSIVE applyBlob(_, _)
applyBlob(ps, data) ==
    IF data = <<>> THEN ps
    ELSE applyBlob(
            IF Head(data).pool \in DOMAIN ps
            THEN [ps EXCEPT ![Head(data).pool] = applyEntries(@, Head(data).entries)]
            ELSE ps,
            Tail(data))

\* loadFromJson without its reset()
loadFromJson_noreset(ps, data) == applyBlob(ps, data)

loadFromJson(ps, data) == applyBlob(reset(ps, NULL), data)

\* JSON text of a Record<string, [string, boolean][]>, as its tokens in
\* order: a key token per pool, followed by a pair token per entry
JSONstringify(data) ==
    IF data = <<>> THEN <<>>
    ELSE LET n == Len(data)
             last == data[n]
         IN JSONstringify(SubSeq(data, 1, n - 1))
            \o <<[kind |-> "key", a |-> last.pool, b |-> FALSE]>>
            \o [j \in 1..Len(last.entries) |->
                   [kind |-> "pair", a |-> last.entries[j][1], b |-> last.entries[j][2]]]

\* JSON.parse of such a text, as the Object.entries of the object
JSONparse(text) ==
    IF text = <<>> THEN <<>>
    ELSE LET n == Len(text)
             t == text[n]
             before == JSONparse(SubSeq(text, 1, n - 1))
         IN IF t.kind = "key" THEN Append(before, [pool |-> t.a, entries |-> <<>>])
            ELSE [before EXCEPT ![Len(before)].entries = Append(@, <<t.a, t.b>>)]

\* saveAsJson that writes every record as unplayed
saveAsJson_unplayed(ps, order) ==
    JSONstringify(
        [i \in 1..Len(order) |->
            [pool |-> order[i],
             entries |-> [j \in 1..Len(ps[order[i]].deck) |->
                             <<ps[order[i]].deck[j].knotID, FALSE>>]]])

saveAsJson(ps, order) ==
    JSONstringify(
        [i \in 1..Len(order) |->
            [pool |-> order[i],
             entries |-> [j \in 1..Len(ps[order[i]].deck) |->
                             <<ps[order[i]].deck[j].knotID, ps[order[i]].deck[j].played>>]]])

LoadFromJson(data) ==
    /\ pools' = loadFromJson(pools, data)
    /\ run' = [p \in DOMAIN run |-> NoRun]
    /\ lastOp' = Op("loadFromJson", NULL, NULL)
    /\ fired' = <<>>
    /\ evaluated' = <<>>
    /\ UNCHANGED <<poolOrder, storyletsPerTick, worker, runner>>

\* manager.storyletsPerTick = n, by the host between refreshes
Configure ==
    /\ \A p \in DOMAIN pools : pools[p].state # REFRESHING
    /\ \E n \in 1..MaxBudget : storyletsPerTick' = n
    /\ lastOp' = Op("storyletsPerTick", NULL, NULL)
    /\ fired' = <<>>
    /\ evaluated' = <<>>
    /\ UNCHANGED <<pools, poolOrder, run, tallies, worker, runner>>

\* --------------------------------------------------- the worker (two builds)
\* StoryletWorker.ts exists as a build for worker_threads ("node") and as a
\* build for a web worker ("browser"); the handlers below take the build
\* where the two differ.

\* A message to the worker, with every field of every type
Message(type) ==
    [knotID |-> NULL, type |-> type, pool |-> NULL, storylets |-> <<>>,
     content |-> NULL, stateJson |-> NULL,
     overrides |-> [given |-> FALSE, map |-> <<>>], json |-> <<>>]

\* A response of the worker
Response(type) ==
    [type |-> type, hand |-> <<>>, handWeighted |-> <<>>, pool |-> NULL, json |-> <<>>]

\* The worker before its module is loaded.  inbox is the port of the worker:
\* the messages posted to it that its listener has not been called with yet,
\* each with the pools the worker holds once the messages posted before it
\* are handled.
NoWorker ==
    [pools |-> <<>>, order |-> <<>>, asked |-> <<>>, build |-> "none",
     story |-> FALSE, msg |-> Message("none"), posted |-> <<>>, inbox |-> <<>>]

\* What a handler did: the worker it left, the responses it posted, the
\* predicates it evaluated, and whether it threw
Handled(w, posted, asked, threw) ==
    [w |-> w, asked |-> asked, posted |-> posted, threw |-> threw]

getOrCreatePool(w, pool) ==
    IF pool \in DOMAIN w.pools THEN w
    ELSE [w EXCEPT !.pools = [p \in DOMAIN w.pools \cup {pool} |->
                                 IF p = pool THEN <<>> ELSE w.pools[p]],
                   !.order = Append(w.order, pool)]

\* new Story(content) throws on content that is not a compiled story
handleInit(w, content) ==
    IF content # "story" THEN Handled(w, <<>>, <<>>, TRUE)
    ELSE Handled(IF w.build = "browser"
                 THEN [w EXCEPT !.story = TRUE, !.pools = <<>>, !.order = <<>>]
                 ELSE [w EXCEPT !.story = TRUE],
                 <<Response("INIT_COMPLETE")>>, <<>>, FALSE)

RECURSIVE registerInto(_, _, _)
registerInto(build, deck, storylets) ==
    IF storylets = <<>> THEN deck
    ELSE LET s == Head(storylets)
             fresh == [knotID |-> s.knotID, played |-> FALSE, once |-> s.once,
                       groupPredicate |-> s.groupPredicate]
         IN registerInto(build,
                         IF build = "node" /\ DeckHas(deck, s.knotID) THEN deck
                         ELSE DeckSet(deck, fresh),
                         Tail(storylets))

handleRegisterStorylets(w, pool, storylets) ==
    LET created == getOrCreatePool(w, pool)
    IN Handled([created EXCEPT !.pools[pool] = registerInto(w.build, @, storylets)],
               <<>>, <<>>, FALSE)

\* groupOverrides[gp] ?? true, for a storylet with a gate and overrides given
OverrideActive(storylet, overrides) ==
    LET gp == storylet.groupPredicate
    IN IF gp # NULL /\ overrides.given
       THEN IF gp \in DOMAIN overrides.map THEN overrides.map[gp] ELSE TRUE
       ELSE TRUE

\* The number of copies the loop "for (i = 0; i < weight; i++)" pushes
CopiesOf(build, storylet, answer) ==
    IF build = "browser" THEN getWeighting(storylet, answer)
    ELSE CASE answer.kind = "boolean" -> IF answer.v = 1 THEN 1 ELSE 0
           [] answer.kind = "number" -> IF answer.v > 0 THEN (answer.v + 1) \div 2 ELSE 0
           [] OTHER -> 0

RECURSIVE refreshPool_blind(_, _, _, _, _)
RECURSIVE refreshPool(_, _, _, _, _)

\* refreshPool that does not look at groupOverrides
refreshPool_blind(build, poolName, deck, overrides, answers) ==
    IF deck = <<>>
    THEN Handled(NULL, <<[Response("REFRESH_COMPLETE") EXCEPT !.pool = poolName]>>,
                 <<>>, FALSE)
    ELSE LET s == Head(deck)
             answer == answers[s.knotID]
             rest == refreshPool_blind(build, poolName, Tail(deck), overrides, answers)
             call == <<[fn |-> Underscore(s.knotID), res |-> answer, pool |-> poolName]>>
             n == CopiesOf(build, s, answer)
         IN IF s.once /\ s.played THEN rest
            ELSE IF build = "node" /\ answer.kind = "throws"
                 THEN Handled(NULL, <<>>, call, TRUE)
            ELSE IF n <= 0 \/ rest.threw
                 THEN [rest EXCEPT !.asked = call \o @]
            ELSE [rest EXCEPT
                     !.asked = call \o @,
                     !.posted[1].hand = <<s.knotID>> \o @,
                     !.posted[1].handWeighted = Repeat(s.knotID, n) \o @]

\* The loop over deck.values() and the response: a throwing predicate is
\* caught by getWeighting in the browser build and ends the loop, without a
\* response, in the node build
refreshPool(build, poolName, deck, overrides, answers) ==
    IF deck = <<>>
    THEN Handled(NULL, <<[Response("REFRESH_COMPLETE") EXCEPT !.pool = poolName]>>,
                 <<>>, FALSE)
    ELSE LET s == Head(deck)
             answer == answers[s.knotID]
             rest == refreshPool(build, poolName, Tail(deck), overrides, answers)
             call == <<[fn |-> Underscore(s.knotID), res |-> answer, pool |-> poolName]>>
             n == CopiesOf(build, s, answer)
         IN IF ~OverrideActive(s, overrides) THEN rest
            ELSE IF s.once /\ s.played THEN rest
            ELSE IF build = "node" /\ answer.kind = "throws"
                 THEN Handled(NULL, <<>>, call, TRUE)
            ELSE IF n <= 0 \/ rest.threw
                 THEN [rest EXCEPT !.asked = call \o @]
            ELSE [rest EXCEPT
                     !.asked = call \o @,
                     !.posted[1].hand = <<s.knotID>> \o @,
                     !.posted[1].handWeighted = Repeat(s.knotID, n) \o @]

RECURSIVE refreshPools(_, _, _, _)
refreshPools(w, poolNames, overrides, answers) ==
    IF poolNames = <<>> THEN Handled(w, <<>>, <<>>, FALSE)
    ELSE LET r == refreshPool(w.build, Head(poolNames), w.pools[Head(poolNames)],
                              overrides, answers)
             rest == refreshPools(w, Tail(poolNames), overrides, answers)
         IN IF r.threw THEN Handled(w, <<>>, r.asked, TRUE)
            ELSE Handled(w, r.posted \o rest.posted, r.asked \o rest.asked, rest.threw)

\* story.state.LoadJson throws on a stateJson that is not a saved state
handleRefresh(w, stateJson, pool, overrides, answers) ==
    IF ~w.story THEN Handled(w, <<>>, <<>>, TRUE)
    ELSE IF stateJson # "state" THEN Handled(w, <<>>, <<>>, TRUE)
    ELSE IF pool # NULL
         THEN refreshPools(getOrCreatePool(w, pool), <<pool>>, overrides, answers)
         ELSE refreshPools(w, w.order, overrides, answers)

handleMarkPlayed(w, pool, knotID) ==
    Handled(IF pool \in DOMAIN w.pools
            THEN [w EXCEPT !.pools[pool] =
                     [i \in 1..Len(@) |->
                         IF @[i].knotID = knotID THEN [@[i] EXCEPT !.played = TRUE]
                         ELSE @[i]]]
            ELSE w,
            <<>>, <<>>, FALSE)

handleReset(w, pool) ==
    Handled([w EXCEPT !.pools =
                [p \in DOMAIN w.pools |->
                    IF pool \in {NULL, p}
                    THEN [i \in 1..Len(w.pools[p]) |-> [w.pools[p][i] EXCEPT !.played = FALSE]]
                    ELSE w.pools[p]]],
            <<>>, <<>>, FALSE)

\* The keys of a parsed text whose value is not an array
NotIterable(text) ==
    {text[i].a : i \in {j \in 1..Len(text) : text[j].kind = "scalar"}}

\* The loop over Object.entries(data): "for (... of entries)" throws on the
\* value of a pool of the worker that is not an array
RECURSIVE applyDatabolt(_, _, _)
applyDatabolt(w, data, scalars) ==
    IF data = <<>> THEN Handled(w, <<>>, <<>>, FALSE)
    ELSE LET poolName == Head(data).pool
         IN IF poolName \notin DOMAIN w.pools
            THEN applyDatabolt(w, Tail(data), scalars)
            ELSE IF poolName \in scalars THEN Handled(w, <<>>, <<>>, TRUE)
            ELSE applyDatabolt(
                    [w EXCEPT !.pools[poolName] =
                        applyEntries([deck |-> @], Head(data).entries).deck],
                    Tail(data), scalars)

\* JSON.parse throws on a text that is not JSON.  The node build catches and
\* logs whatever its body throws; the browser build resets first and lets it
\* through
handleLoad(w, json) ==
    LET start == IF w.build = "browser" THEN handleReset(w, NULL).w ELSE w
        r == IF \E i \in 1..Len(json) : json[i].kind = "junk" THEN Handled(start, <<>>, <<>>, TRUE)
             ELSE applyDatabolt(start,
                                JSONparse(SelectSeq(json, LAMBDA t : t.kind # "scalar")),
                                NotIterable(json))
    IN IF w.build = "node" THEN [r EXCEPT !.threw = FALSE] ELSE r

handleSave(w) ==
    Handled(w,
            <<[Response("SAVE_DATABOLT") EXCEPT
                  !.json = JSONstringify(
                      [i \in 1..Len(w.order) |->
                          [pool |-> w.order[i],
                           entries |-> [j \in 1..Len(w.pools[w.order[i]]) |->
                                           <<w.pools[w.order[i]][j].knotID,
                                             w.pools[w.order[i]][j].played>>]]])]>>,
            <<>>, FALSE)

\* handleMessage / self.onmessage: the switch, and the catch that posts ERROR
handleMessage(w, msg, answers) ==
    LET r == CASE msg.type = "INIT" -> handleInit(w, msg.content)
               [] msg.type = "REGISTER_STORYLETS" ->
                      handleRegisterStorylets(w, msg.pool, msg.storylets)
               [] msg.type = "REFRESH" ->
                      handleRefresh(w, msg.stateJson, msg.pool, msg.overrides, answers)
               [] msg.type = "MARK_PLAYED" -> handleMarkPlayed(w, msg.pool, msg.knotID)
               [] msg.type = "RESET" -> handleReset(w, msg.pool)
               [] msg.type = "LOAD_DATABOLT" -> handleLoad(w, msg.json)
               [] msg.type = "SAVE_DATABOLT" -> handleSave(w)
               [] OTHER -> Handled(w, <<>>, <<>>, FALSE)
    IN [r.w EXCEPT
           !.msg = msg,
           !.posted = IF r.threw THEN Append(r.posted, Response("ERROR")) ELSE r.posted,
           !.asked = r.asked]

\* ---------------------------------------------------------------- the host
\* The host before it has called runUntilReady: handle is the variable of the
\* closure (null, an Immediate that is pending, or one that is spent: it has
\* run or was cleared), cancelled tells that the returned function was
\* called, ticks counts the calls of manager.tick() made by loop, and saw is
\* what the host's onRefreshComplete met and did during the last tick.
NoRunner ==
    [ticks |-> 0, started |-> FALSE, handle |-> NULL, cancelled |-> FALSE, saw |-> <<>>]

\* The manager a callback runs in, given the pools when the queue of the pool
\* was drained and the pools once its state was set: the callback is called
\* with the state not yet set
CallbackState_early(drained, completed) == drained

\* tick sets REFRESH_COMPLETE before it calls onRefreshComplete
CallbackState(drained, completed) == completed

\* What the host's onRefreshComplete does when it is called, after it has
\* read getPlayableStorylets(false, pool): nothing more ("none"), refresh(pool),
\* refresh(), or the function that runUntilReady returned ("cancel").  The
\* calls it makes on the manager: the pools they leave, and the pools whose
\* queue they built
onRefreshComplete(ps, order, poolName, does) ==
    CASE does = "refreshPool" -> refresh(ps, order, poolName, <<>>)
      [] does = "refreshAll" -> refresh(ps, order, NULL, <<>>)
      [] OTHER -> [pools |-> ps, built |-> <<>>]

\* The body of the loop of tick for a REFRESHING pool p, up to the test of
\* the queue: st is the manager and the histories of the tick so far
Worked(st, p, answers, budget) ==
    [st EXCEPT
        !.pools[p] = tickPool(@, answers, budget).pool,
        !.run[p] = [@ EXCEPT !.evals = @ \o Evals(st.pools[p], answers, budget),
                             !.ticks = @ + 1],
        !.evaluated = @ \o PredicateCalls(st.pools, <<p>>, answers, budget)]

\* What the handler meets when it is called for pool p in the manager at
\* and reads getPlayableStorylets(false, p)
Seen(at, p, did) ==
    [hand |-> getPlayableStorylets(at, FALSE, p),
     state |-> at[p].state,
     pool |-> p,
     queue |-> Len(at[p].refreshList),
     did |-> did]

\* The callback for pool p is over: r is what its calls on the manager did
Called(st, p, seen, r) ==
    [st EXCEPT
        !.pools = r.pools,
        !.run = [q \in DOMAIN @ |->
                    IF Includes(r.built, q)
                    THEN [NoRun EXCEPT !.deckSize = Len(r.pools[q].deck)]
                    ELSE @[q]],
        !.fired = Append(@, p),
        !.saw = Append(@, seen),
        !.cancelled = @ \/ seen.did = "cancel"]

\* if (refreshList.length === 0) { state = REFRESH_COMPLETE; callback }
Completed(st, order, p, did) ==
    IF st.pools[p].state # REFRESH_COMPLETE THEN st
    ELSE Called(st, p,
                Seen(CallbackState([st.pools EXCEPT ![p].state = REFRESHING], st.pools),
                     p, did),
                onRefreshComplete(st.pools, order, p, did))

\* tick() with a host whose onRefreshComplete acts as does[pool] says: the
\* loop over _pools, seq being the pools still to visit
RECURSIVE tickCalling(_, _, _, _, _, _)
tickCalling(st, order, seq, answers, budget, does) ==
    IF seq = <<>> THEN st
    ELSE tickCalling(
            IF st.pools[Head(seq)].state # REFRESHING THEN st
            ELSE Completed(Worked(st, Head(seq), answers, budget),
                           order, Head(seq), does[Head(seq)]),
            order, Tail(seq), answers, budget, does)

\* manager.tick() called by the host itself, every predicate answering true
\* and the handler doing nothing more or refreshing
TickCalling ==
    \E does \in [DOMAIN pools -> {"none", "refreshPool", "refreshAll"}] :
        LET t == tickCalling([pools |-> pools, fired |-> <<>>, evaluated |-> <<>>,
                              run |-> run, saw |-> <<>>, cancelled |-> FALSE],
                             poolOrder, poolOrder,
                             [id \in StoryletIds |-> [kind |-> "boolean", v |-> 1]],
                             storyletsPerTick, does)
        IN /\ pools' = t.pools
           /\ fired' = t.fired
           /\ evaluated' = t.evaluated
           /\ run' = t.run
           /\ lastOp' = Op("tick", NULL, NULL)
           /\ runner' = [runner EXCEPT
                            !.saw = t.saw,
                            !.cancelled = @ \/ t.cancelled,
                            !.handle = IF t.cancelled /\ @ = "pending" THEN "spent" ELSE @]
           /\ UNCHANGED <<poolOrder, storyletsPerTick, tallies, worker>>

\* runUntilReady(manager): handle = setImmediate(loop)
RunUntilReady ==
    /\ ~runner.started
    /\ runner' = [runner EXCEPT !.started = TRUE, !.handle = "pending"]
    /\ UNCHANGED <<managerVars, worker>>

\* The event loop runs loop(): the Immediate of handle is spent while it
\* runs, so a cancel() made by a handler during the tick clears nothing;
\* the handler does nothing more or cancels
Loop ==
    /\ runner.handle = "pending"
    /\ runner.ticks < MaxLoops
    /\ \E does \in [DOMAIN pools -> {"none", "cancel"}] :
        LET t == tickCalling([pools |-> pools, fired |-> <<>>, evaluated |-> <<>>,
                              run |-> run, saw |-> <<>>, cancelled |-> FALSE],
                             poolOrder, poolOrder,
                             [id \in StoryletIds |-> [kind |-> "boolean", v |-> 1]],
                             storyletsPerTick, does)
        IN /\ pools' = t.pools
           /\ fired' = t.fired
           /\ evaluated' = t.evaluated
           /\ run' = t.run
           /\ lastOp' = Op("tick", NULL, NULL)
           /\ runner' = [runner EXCEPT
                            !.ticks = @ + 1,
                            !.saw = t.saw,
                            !.cancelled = @ \/ t.cancelled,
                            !.handle = IF areAllReady(t.pools) THEN NULL ELSE "pending"]
           /\ UNCHANGED <<poolOrder, storyletsPerTick, tallies, worker>>

\* The function runUntilReady returned, called between two callbacks of the
\* event loop
Cancel ==
    /\ runner.started
    /\ runner' = [runner EXCEPT
                     !.cancelled = TRUE,
                     !.handle = IF @ = "pending" THEN "spent" ELSE @]
    /\ UNCHANGED <<managerVars, worker>>

\* ------------------------------------------------------------ specification
\* A manager built on a story without #storylets: global tags
Init ==
    /\ pools = <<>>
    /\ poolOrder = <<>>
    /\ storyletsPerTick = DEFAULT_BUDGET
    /\ lastOp = Op("new", NULL, NULL)
    /\ fired = <<>>
    /\ evaluated = <<>>
    /\ run = <<>>
    /\ unanswered = [p \in PoolNames |-> 0]
    /\ doneAtStart = [p \in PoolNames |-> {}]
    /\ worker = NoWorker
    /\ runner = NoRunner

\* The names the host registers, and where
Register ==
    \E r \in {<<"a", "main">>, <<"b", "main">>, <<"b", "side">>} :
        AddStorylets(r[1], r[2]) /\ UNCHANGED tallies

Refresh == \E pool \in PoolNames \cup {NULL} :
              RefreshWith(pool, CoarseGateResults) /\ UNCHANGED tallies

Tick == TickWith(CoarseResults) /\ UNCHANGED tallies

Pick == \E pool \in PoolNames : PickPlayableStorylet(pool) /\ UNCHANGED tallies

Mark == \E knotID \in {"a_1", "b_1"}, pool \in PoolNames \cup {NULL} :
            MarkPlayed(knotID, pool) /\ UNCHANGED tallies

ResetPools == \E pool \in PoolNames \cup {NULL} : Reset(pool) /\ UNCHANGED tallies

Load == \E data \in Blobs : LoadFromJson(data) /\ UNCHANGED tallies

Next ==
    \/ Register
    \/ Refresh
    \/ Tick
    \/ Pick
    \/ Mark
    \/ ResetPools
    \/ Load
    \/ Configure

Spec == Init /\ [][Next]_vars

\* The calls C1 is about, with every refresh call counted against the
\* completion events: unanswered[p] goes up with each refresh call that
\* targets p (refresh(p), or refresh() while p is registered) and down with
\* each onRefreshComplete(p).
MaxUnanswered == 2

\* They are made on pool "main" alone.
RegisterMain ==
    \E name \in {"a", "b"} : AddStorylets(name, "main") /\ UNCHANGED tallies

RefreshCounted ==
    \E pool \in {"main", NULL} :
        LET targeted == IF pool # NULL THEN {pool} ELSE DOMAIN pools
        IN /\ \A p \in targeted : unanswered[p] < MaxUnanswered
           /\ RefreshWith(pool, CoarseGateResults)
           /\ unanswered' = [p \in PoolNames |->
                                IF p \in targeted THEN unanswered[p] + 1 ELSE unanswered[p]]
           /\ UNCHANGED doneAtStart

TickCounted ==
    /\ TickWith(CoarseResults)
    /\ unanswered' = [p \in PoolNames |-> unanswered[p] - Count(fired', p)]
    /\ UNCHANGED doneAtStart

ResetMain == \E pool \in {"main", NULL} : Reset(pool) /\ UNCHANGED tallies

MarkMain == \E knotID \in {"a_1", "b_1"} : MarkPlayed(knotID, "main") /\ UNCHANGED tallies

SpecCalls ==
    Init /\ [][ \/ RegisterMain
              \/ RefreshCounted
              \/ TickCounted
              \/ ResetMain
              \/ MarkMain
              \/ Configure ]_vars

\* The calls C6 and C7 are about: one pool holding the storylets of name "c"
\* (c_3 is tagged once), predicates answering anything EvaluateFunction can
\* give, and doneAtStart kept: a refresh call that builds the queue of p adds
\* the once ids of p whose played flag is set, reset and loadFromJson empty it.
OnceAndPlayed(poolState) ==
    {poolState.deck[i].knotID : i \in {j \in 1..Len(poolState.deck) :
                                          poolState.deck[j].once /\ poolState.deck[j].played}}

RegisterHands == AddStorylets("c", "main") /\ UNCHANGED tallies

RefreshHands ==
    /\ RefreshWith("main", CoarseGateResults)
    /\ doneAtStart' = [p \in PoolNames |->
                          IF p \in DOMAIN pools' /\ pools'[p].state = REFRESHING
                             /\ (p \notin DOMAIN pools \/ pools[p].state # REFRESHING)
                          THEN doneAtStart[p] \cup OnceAndPlayed(pools'[p])
                          ELSE doneAtStart[p]]
    /\ UNCHANGED unanswered

TickHands == TickWith(Results) /\ UNCHANGED tallies

PickHands == PickPlayableStorylet("main") /\ UNCHANGED tallies

MarkHands == \E knotID \in {"c_1", "c_3"} : MarkPlayed(knotID, "main") /\ UNCHANGED tallies

ResetHands ==
    /\ Reset("main")
    /\ doneAtStart' = [doneAtStart EXCEPT !["main"] = {}]
    /\ UNCHANGED unanswered

LoadHands ==
    /\ \E data \in Blobs : LoadFromJson(data)
    /\ doneAtStart' = [p \in PoolNames |-> {}]
    /\ UNCHANGED unanswered

SpecHands ==
    Init /\ [][ \/ RegisterHands
              \/ RefreshHands
              \/ TickHands
              \/ PickHands
              \/ MarkHands
              \/ ResetHands
              \/ LoadHands
              \/ Configure ]_vars

\* The calls C17 to C20 are about: name "a", with group predicate _a, in
\* the decks of both pools, name "b", without one, in "main", and group
\* predicates answering true, false, a number or an error.
RegisterGates ==
    \E r \in {<<"a", "main">>, <<"a", "side">>, <<"b", "main">>} :
        AddStorylets(r[1], r[2]) /\ UNCHANGED tallies

RefreshGates ==
    \E pool \in PoolNames \cup {NULL} : RefreshWith(pool, GateResults) /\ UNCHANGED tallies

ResetGates == Reset(NULL) /\ UNCHANGED tallies

SpecGates ==
    Init /\ [][ \/ RegisterGates
              \/ RefreshGates
              \/ Tick
              \/ ResetGates
              \/ Configure ]_vars

\* The calls C22 is about: two pools, "main" with the storylets of "a" and
\* "b", "side" with those of "b", refreshed, ticked, marked and reset by name
\* or all at once.
RefreshPools ==
    \E pool \in PoolNames \cup {NULL} :
        RefreshWith(pool, {[kind |-> "boolean", v |-> 1]}) /\ UNCHANGED tallies

TickPools == TickWith({[kind |-> "boolean", v |-> 1]}) /\ UNCHANGED tallies

MarkPools == MarkPlayed("b_1", NULL) /\ UNCHANGED tallies

SpecPools ==
    Init /\ [][ \/ Register
              \/ RefreshPools
              \/ TickPools
              \/ MarkPools
              \/ ResetPools
              \/ Configure ]_vars

\* --- The calls C34 is about: the calls of SpecPools without reset, made by a
\* host that keeps calling tick (its game loop, or runUntilReady): a tick that
\* would change something is not put off forever.
SpecLive ==
    Init /\ [][ \/ Register
              \/ RefreshPools
              \/ TickPools
              \/ MarkPools
              \/ Configure ]_vars
         /\ WF_vars(TickPools)

\* --- Sixth specification: a host with two pools without gates, "main" with
\* b_1 and "side" with c_1, c_2 and c_3, whose onRefreshComplete calls back
\* into the manager, and that may drive tick with runUntilReady.
RegisterHost ==
    \E r \in {<<"b", "main">>, <<"c", "side">>} :
        AddStorylets(r[1], r[2]) /\ UNCHANGED tallies

SpecHost ==
    Init /\ [][ \/ RegisterHost
              \/ RefreshPools
              \/ TickCalling
              \/ Configure ]_vars

\* --- Seventh specification: the same host driving tick with runUntilReady,
\* with a handler that does nothing or cancels.
SpecRunner ==
    Init /\ [][ \/ RegisterHost
              \/ RefreshPools
              \/ RunUntilReady
              \/ Loop
              \/ Cancel
              \/ Configure ]_vars

\* --- Fifth specification: the worker on its own, fed every kind of message
\* in any order, in both builds.

\* What the manager sends for name "a" with pool "main", and for name "b"
WorkerRegistrations ==
    { [pool |-> "main",
       storylets |-> <<[knotID |-> "a_1", once |-> TRUE, groupPredicate |-> "_a"],
                       [knotID |-> "b_1", once |-> FALSE, groupPredicate |-> NULL]>>],
      [pool |-> "side",
       storylets |-> <<[knotID |-> "b_1", once |-> FALSE, groupPredicate |-> NULL]>>] }

\* groupOverrides: absent, or a Record<string, boolean>
WorkerOverrides ==
    { [given |-> FALSE, map |-> <<>>], [given |-> TRUE, map |-> <<>>],
      [given |-> TRUE, map |-> [g \in {"_a"} |-> FALSE]],
      [given |-> TRUE, map |-> [g \in {"_a"} |-> TRUE]] }

\* What a predicate gives in the worker: true, 1.5, a thrown error, a string
WorkerResults ==
    {[kind |-> "boolean", v |-> 1], [kind |-> "number", v |-> 3],
     [kind |-> "throws", v |-> 0], [kind |-> "other", v |-> 0]}

\* The json of LOAD_DATABOLT: {"main":[["a_1",true],["b_1",false]]}, a text
\* that is not JSON, and {"main":[["b_1",true]],"side":5}
WorkerTexts ==
    { <<[a |-> "main", b |-> FALSE, kind |-> "key"],
        [a |-> "a_1", b |-> TRUE, kind |-> "pair"],
        [a |-> "b_1", b |-> FALSE, kind |-> "pair"]>>,
      <<[a |-> "", b |-> FALSE, kind |-> "junk"]>>,
      <<[a |-> "main", b |-> FALSE, kind |-> "key"],
        [a |-> "b_1", b |-> TRUE, kind |-> "pair"],
        [a |-> "side", b |-> FALSE, kind |-> "key"],
        [a |-> "side", b |-> FALSE, kind |-> "scalar"]>> }

\* Each message reaches a worker whose module is loaded; the story answers
\* the predicates of a REFRESH only
\* new Worker(...) loads the module of one of the builds, which starts with
\* story = null and pools = new Map()
Spawn ==
    /\ worker.build = "none"
    /\ \E build \in {"node", "browser"} : worker' = [NoWorker EXCEPT !.build = build]
    /\ UNCHANGED <<managerVars, runner>>

WorkerInit ==
    /\ worker.build # "none"
    /\ \E content \in {"story", "garbage"} :
           worker' = handleMessage(worker, [Message("INIT") EXCEPT !.content = content], [id \in StoryletIds |-> NotAsked])
    /\ UNCHANGED <<managerVars, runner>>

WorkerRegister ==
    /\ worker.build # "none"
    /\ \E r \in WorkerRegistrations :
           worker' = handleMessage(worker, [Message("REGISTER_STORYLETS") EXCEPT
                       !.pool = r.pool, !.storylets = r.storylets], [id \in StoryletIds |-> NotAsked])
    /\ UNCHANGED <<managerVars, runner>>

WorkerRefresh ==
    /\ worker.build # "none"
    /\ \E pool \in PoolNames \cup {NULL}, overrides \in WorkerOverrides,
          asked \in [{"a_1", "b_1"} -> WorkerResults] :
           worker' = handleMessage(worker, [Message("REFRESH") EXCEPT
                       !.stateJson = "state", !.pool = pool, !.overrides = overrides],
                   [id \in StoryletIds |->
                       IF id \in DOMAIN asked THEN asked[id] ELSE NotAsked])
    /\ UNCHANGED <<managerVars, runner>>

\* A REFRESH whose stateJson is not a saved state
WorkerRefreshBad ==
    /\ worker.build # "none"
    /\ \E pool \in PoolNames \cup {NULL} :
           worker' = handleMessage(worker, [Message("REFRESH") EXCEPT !.stateJson = "garbage", !.pool = pool],
                   [id \in StoryletIds |-> NotAsked])
    /\ UNCHANGED <<managerVars, runner>>

WorkerMark ==
    /\ worker.build # "none"
    /\ \E pool \in PoolNames, knotID \in {"a_1", "b_1"} :
           worker' = handleMessage(worker, [Message("MARK_PLAYED") EXCEPT !.pool = pool, !.knotID = knotID],
                   [id \in StoryletIds |-> NotAsked])
    /\ UNCHANGED <<managerVars, runner>>

WorkerReset ==
    /\ worker.build # "none"
    /\ \E pool \in PoolNames \cup {NULL} :
           worker' = handleMessage(worker, [Message("RESET") EXCEPT !.pool = pool], [id \in StoryletIds |-> NotAsked])
    /\ UNCHANGED <<managerVars, runner>>

WorkerLoad ==
    /\ worker.build # "none"
    /\ \E json \in WorkerTexts :
           worker' = handleMessage(worker, [Message("LOAD_DATABOLT") EXCEPT !.json = json], [id \in StoryletIds |-> NotAsked])
    /\ UNCHANGED <<managerVars, runner>>

WorkerSave ==
    /\ worker.build # "none"
    /\ worker' = handleMessage(worker, Message("SAVE_DATABOLT"), [id \in StoryletIds |-> NotAsked])
    /\ UNCHANGED <<managerVars, runner>>

SpecWorker ==
    Init /\ [][ \/ Spawn
              \/ WorkerInit
              \/ WorkerRegister
              \/ WorkerRefresh
              \/ WorkerRefreshBad
              \/ WorkerMark
              \/ WorkerReset
              \/ WorkerLoad
              \/ WorkerSave ]_vars

TypeOK ==
    /\ DOMAIN pools = Range(poolOrder)
    /\ DOMAIN run = DOMAIN pools
    /\ \A p \in DOMAIN pools : pools[p].state \in {NEEDS_REFRESH, REFRESHING, REFRESH_COMPLETE}

\* ------------------------------------------------------------------ claims
StateOf(ps, p) == IF p \in DOMAIN ps THEN ps[p].state ELSE NEEDS_REFRESH

\* C1 as claimed: every refresh call that targeted a pool is answered by
\* exactly one completion event of that pool, emitted when the queue is
\* drained: the calls not yet answered are the one refresh in progress.
C1_OncePerCall ==
    \A p \in PoolNames :
        /\ unanswered[p] = IF StateOf(pools, p) = REFRESHING THEN 1 ELSE 0
        /\ Includes(fired, p) => pools[p].refreshList = <<>>

\* C1 amended: onRefreshComplete(pool) is emitted only by tick(), at most
\* once per tick and never more often than refresh was called for the pool,
\* exactly by the tick that takes the last record off the queue of the
\* REFRESHING pool and makes it REFRESH_COMPLETE, never while a record is
\* left; a refresh in progress ends with that one event or, without an
\* event, by reset or load.
C1_CompletionOnDrain ==
    [][\A p \in DOMAIN pools' :
          LET n == Count(fired', p)
              was == StateOf(pools, p)
              now == pools'[p].state
          IN /\ n <= 1
             /\ unanswered'[p] >= IF now = REFRESHING THEN 1 ELSE 0
             /\ n = 1 => /\ lastOp'.name = "tick"
                         /\ was = REFRESHING /\ now = REFRESH_COMPLETE
                         /\ pools'[p].refreshList = <<>>
                         /\ Len(run'[p].evals) = Len(run[p].evals) + Len(pools[p].refreshList)
             /\ (was = REFRESHING /\ now # REFRESHING) =>
                    n = 1 \/ lastOp'.name \in {"reset", "loadFromJson"}
             /\ (was # REFRESH_COMPLETE /\ now = REFRESH_COMPLETE) => n = 1
      ]_vars

\* A pool whose queue of two records was drained by two ticks has fired its
\* one event, and no refresh call is left unanswered.
C1_Witness ==
    /\ lastOp.name = "tick"
    /\ "main" \in DOMAIN pools
    /\ Includes(fired, "main")
    /\ run["main"].ticks = 2 /\ Len(run["main"].evals) = 2
    /\ unanswered["main"] = 0

\* C2: refresh(pool) on a pool that is REFRESHING changes nothing of the
\* pool (state, refreshList, hand, handWeighted), nor of any other pool, and
\* evaluates no group predicate.
C2_RefreshNamedIgnored ==
    [][\A p \in DOMAIN pools :
          (lastOp' = Op("refresh", p, NULL) /\ pools[p].state = REFRESHING) =>
              /\ pools'[p] = pools[p]
              /\ pools' = pools
              /\ evaluated' = <<>>
      ]_vars

\* refresh("main") was called on a pool in the middle of its refresh: a tick
\* had worked on the queue and records are left.
C2_Witness ==
    /\ lastOp = Op("refresh", "main", NULL)
    /\ "main" \in DOMAIN pools
    /\ pools["main"].state = REFRESHING
    /\ run["main"].ticks >= 1
    /\ pools["main"].refreshList # <<>>
    /\ pools["main"].handWeighted # <<>>

\* C3 as claimed: refresh() leaves every pool that is REFRESHING as it is.
C3_RefreshAllIgnored ==
    [][lastOp' = Op("refresh", NULL, NULL) =>
          \A p \in DOMAIN pools : pools[p].state = REFRESHING => pools'[p] = pools[p]
      ]_vars

\* C4: one tick() shifts at most storyletsPerTick records off the queue of
\* each REFRESHING pool, from its front, evaluates no more predicates than
\* that, and shifts nothing off the queue of any other pool.
C4_TickBudget ==
    [][lastOp'.name = "tick" =>
          /\ \A p \in DOMAIN pools :
                LET list == pools[p].refreshList
                    n == Len(list) - Len(pools'[p].refreshList)
                IN IF pools[p].state = REFRESHING
                   THEN /\ n \in 0..storyletsPerTick
                        /\ pools'[p].refreshList = SubSeq(list, n + 1, Len(list))
                        /\ Len(run'[p].evals) = Len(run[p].evals) + n
                   ELSE /\ pools'[p].refreshList = list
                        /\ run'[p] = run[p]
          /\ Len(evaluated') <=
                storyletsPerTick
                * Cardinality({p \in DOMAIN pools : pools[p].state = REFRESHING})
      ]_vars

\* The first tick of a refresh took exactly storyletsPerTick records and left
\* some on the queue.
C4_Witness ==
    /\ lastOp.name = "tick"
    /\ \E p \in DOMAIN pools :
          /\ pools[p].state = REFRESHING
          /\ pools[p].refreshList # <<>>
          /\ run[p].ticks = 1
          /\ Len(run[p].evals) = storyletsPerTick

\* The refresh of p queued the whole deck (no group predicate excluded a record)
WholeDeck(p) == Len(run[p].evals) + Len(pools[p].refreshList) = run[p].deckSize

\* C5 as claimed: a pool refreshed with a deck of D records and no exclusion
\* completes at tick number ceil(D / storyletsPerTick), D = 0 included.
C5_TicksCeil ==
    \A p \in DOMAIN pools :
        (Includes(fired, p) /\ WholeDeck(p)) =>
            run[p].ticks = (run[p].deckSize + storyletsPerTick - 1) \div storyletsPerTick

\* C5 amended: the pool completes at tick number
\* max(1, ceil(D / storyletsPerTick)) of its refresh, not at an earlier one
\* and not at a later one: an empty deck takes one tick.
C5_TicksCeilOrOne ==
    \A p \in DOMAIN pools :
        LET needed == Max(1, (run[p].deckSize + storyletsPerTick - 1) \div storyletsPerTick)
        IN /\ (Includes(fired, p) /\ WholeDeck(p)) => run[p].ticks = needed
           /\ (pools[p].state = REFRESHING /\ WholeDeck(p)) => run[p].ticks < needed

\* A deck of two records, storyletsPerTick = 1: complete at the second tick.
C5_Witness ==
    /\ storyletsPerTick = 1
    /\ \E p \in DOMAIN pools :
          /\ Includes(fired, p) /\ WholeDeck(p)
          /\ run[p].deckSize = 2
          /\ run[p].ticks = 2

\* The weight C6 gives a predicate result: true is 1, false is 0, a number is
\* its value rounded down; a predicate that was not called, threw, or gave
\* another type weighs nothing.
WeightOf(res) ==
    CASE res.kind = "boolean" -> res.v
      [] res.kind = "number" -> Floor(res.v)
      [] OTHER -> 0

\* Total over the records of the queue that carry id
RECURSIVE Copies(_, _)
Copies(evals, id) ==
    IF evals = <<>> THEN 0
    ELSE (IF Head(evals).id = id THEN Max(0, WeightOf(Head(evals).res)) ELSE 0)
         + Copies(Tail(evals), id)

\* C6: in a pool that is REFRESH_COMPLETE, handWeighted holds each id of the
\* refresh queue max(0, floor(weight)) times, hand holds it once if
\* floor(weight) > 0 and not at all otherwise, and neither holds another id.
C6_HandsByWeight ==
    \A p \in DOMAIN pools :
        pools[p].state = REFRESH_COMPLETE =>
            \A id \in StoryletIds :
                LET n == Copies(run[p].evals, id)
                IN /\ Count(pools[p].handWeighted, id) = n
                   /\ Count(pools[p].hand, id) = IF n > 0 THEN 1 ELSE 0

\* A refresh completed after predicates answered 2.0, 0.5 and true: one id
\* twice in handWeighted, one id absent, one id once.
C6_Witness ==
    /\ "main" \in DOMAIN pools
    /\ Includes(fired, "main")
    /\ \E i, j, k \in 1..Len(run["main"].evals) :
          /\ run["main"].evals[i].res = [kind |-> "number", v |-> 4]
          /\ run["main"].evals[j].res = [kind |-> "number", v |-> 1]
          /\ run["main"].evals[k].res = [kind |-> "boolean", v |-> 1]
          /\ Count(pools["main"].handWeighted, run["main"].evals[i].id) = 2
          /\ Count(pools["main"].handWeighted, run["main"].evals[j].id) = 0
          /\ Count(pools["main"].hand, run["main"].evals[k].id) = 1

\* C7 as claimed: a once storylet whose played flag was set when a refresh of
\* its pool began is, at the completion of that refresh and of every later
\* one until the pool is reset or loaded, in neither hand nor handWeighted,
\* and its predicate was not called.
C7_OnceStaysOut ==
    \A p \in DOMAIN pools :
        Includes(fired, p) =>
            \A id \in doneAtStart[p] :
                /\ ~Includes(pools[p].hand, id)
                /\ ~Includes(pools[p].handWeighted, id)
                /\ \A i \in 1..Len(run[p].evals) :
                      run[p].evals[i].id = id => run[p].evals[i].res = NotAsked

\* The (pool, id) pairs whose played flag is set
Played(ps) ==
    UNION {{<<p, ps[p].deck[i].knotID>> :
               i \in {j \in 1..Len(ps[p].deck) : ps[p].deck[j].played}} : p \in DOMAIN ps}

\* C8 as claimed: addStorylets leaves the played flag of every storylet of
\* every pool as it was.
C8_RegistrationKeepsPlayed ==
    [][lastOp'.name = "addStorylets" => Played(pools) \subseteq Played(pools')]_vars

\* C9 as claimed: pickPlayableStorylet does not return an id of a once
\* storylet whose played flag is set.
C9_OnceNeverPickedAgain ==
    [][\A p \in DOMAIN pools :
          (lastOp'.name = "pickPlayableStorylet" /\ lastOp'.pool = p /\ lastOp'.ret # NULL) =>
              ~(lastOp'.ret \in OnceAndPlayed(pools[p]))
      ]_vars

\* C10: pickPlayableStorylet(pool) on a REFRESH_COMPLETE pool returns null
\* exactly when handWeighted is empty; otherwise it returns an id of the
\* pool's handWeighted, sets the played flag of that id in that pool's deck
\* and changes nothing else of any pool.
C10_PickMarksOne ==
    [][\A p \in DOMAIN pools :
          (lastOp'.name = "pickPlayableStorylet" /\ lastOp'.pool = p
           /\ pools[p].state = REFRESH_COMPLETE) =>
              LET ret == lastOp'.ret
              IN /\ ret = NULL <=> pools[p].handWeighted = <<>>
                 /\ ret = NULL => pools' = pools
                 /\ ret # NULL =>
                       /\ Includes(pools[p].handWeighted, ret)
                       /\ DeckHas(pools[p].deck, ret)
                       /\ pools' = [pools EXCEPT ![p].deck =
                                       [i \in 1..Len(@) |->
                                           IF @[i].knotID = ret
                                           THEN [@[i] EXCEPT !.played = TRUE]
                                           ELSE @[i]]]
      ]_vars

\* pickPlayableStorylet("main") returned b_1, which the deck of "side" holds
\* too, unplayed.
C10_Witness ==
    /\ lastOp = Op("pickPlayableStorylet", "main", "b_1")
    /\ "side" \in DOMAIN pools
    /\ DeckHas(pools["side"].deck, "b_1")
    /\ ~DeckGet(pools["side"].deck, "b_1").played
    /\ DeckGet(pools["main"].deck, "b_1").played

\* C11: on a pool that is not REFRESH_COMPLETE (NEEDS_REFRESH, REFRESHING or
\* never registered) getPlayableStorylets gives null, and pickPlayableStorylet
\* returns null and changes nothing: no played flag, no pool state, no new pool.
C11_NotReadyIsNull ==
    /\ [](\A p \in PoolNames, weighted \in BOOLEAN :
             StateOf(pools, p) # REFRESH_COMPLETE =>
                 getPlayableStorylets(pools, weighted, p) = NULL)
    /\ [][\A p \in PoolNames :
             (lastOp'.name = "pickPlayableStorylet" /\ lastOp'.pool = p
              /\ StateOf(pools, p) # REFRESH_COMPLETE) =>
                 /\ lastOp'.ret = NULL
                 /\ pools' = pools
                 /\ poolOrder' = poolOrder
         ]_vars

\* pickPlayableStorylet("main") returned null in the middle of a refresh that
\* had already put an id in handWeighted.
C11_Witness ==
    /\ lastOp = Op("pickPlayableStorylet", "main", NULL)
    /\ "main" \in DOMAIN pools
    /\ pools["main"].state = REFRESHING
    /\ pools["main"].handWeighted # <<>>
    /\ getPlayableStorylets(pools, TRUE, "main") = NULL

\* C12: refresh(p) with a pool named changes no other pool (state, hand,
\* handWeighted, refreshList, played flags), and tick() changes no pool that
\* is not REFRESHING and fires no event for it.
C12_OtherPoolsUntouched ==
    [][/\ \A p \in PoolNames :
             lastOp' = Op("refresh", p, NULL) =>
                 \A q \in DOMAIN pools \ {p} : pools'[q] = pools[q]
       /\ lastOp'.name = "tick" =>
              \A q \in DOMAIN pools :
                  pools[q].state # REFRESHING =>
                      pools'[q] = pools[q] /\ ~Includes(fired', q)
      ]_vars

\* A tick completed "main" alone while "side" stayed REFRESH_COMPLETE with
\* the hand of its own earlier refresh.
C12_Witness ==
    /\ lastOp.name = "tick"
    /\ fired = <<"main">>
    /\ "side" \in DOMAIN pools
    /\ pools["side"].state = REFRESH_COMPLETE
    /\ pools["side"].hand # <<>>
    /\ pools["main"].hand = <<>>

\* C13: areAllReady() is true exactly when a pool is registered and every
\* registered pool is REFRESH_COMPLETE: false without pools, false while a
\* pool is NEEDS_REFRESH or REFRESHING.
C13_AllReady ==
    /\ areAllReady(pools) <=>
           (DOMAIN pools # {} /\ \A p \in DOMAIN pools : pools[p].state = REFRESH_COMPLETE)
    /\ DOMAIN pools = {} => ~areAllReady(pools)
    /\ (\E p \in DOMAIN pools : pools[p].state \in {NEEDS_REFRESH, REFRESHING}) =>
           ~areAllReady(pools)

\* Two pools registered, both REFRESH_COMPLETE: areAllReady() is true.
C13_Witness ==
    /\ DOMAIN pools = {"main", "side"}
    /\ areAllReady(pools)
    /\ pools["main"].state = REFRESH_COMPLETE
    /\ pools["side"].state = REFRESH_COMPLETE

\* ps with the played flag of knotID set in the decks of the pools of targets
\* that hold it, and nothing else changed
MarkedIn(ps, knotID, targets) ==
    [q \in DOMAIN ps |->
        IF q \in targets
        THEN [ps[q] EXCEPT !.deck = [i \in 1..Len(@) |->
                                        [@[i] EXCEPT !.played = @ \/ ps[q].deck[i].knotID = knotID]]]
        ELSE ps[q]]

\* C14: markPlayed(id) sets the played flag of id in every registered pool
\* whose deck holds it, markPlayed(id, pool) in that pool only; no other
\* played flag, no hand, no refreshList and no pool state changes, and an
\* unknown id or an unknown pool changes nothing and creates nothing.
C14_MarkPlayedFrame ==
    /\ [](\A knotID \in StoryletIds \cup {"a_x"} :
             /\ markPlayed(pools, knotID, NULL) = MarkedIn(pools, knotID, DOMAIN pools)
             /\ \A pool \in PoolNames \cup {"gone"} :
                   markPlayed(pools, knotID, pool) = MarkedIn(pools, knotID, {pool})
             /\ (\A q \in DOMAIN pools : ~DeckHas(pools[q].deck, knotID)) =>
                   markPlayed(pools, knotID, NULL) = pools)
    /\ [][lastOp'.name = "markPlayed" =>
             /\ \E knotID \in StoryletIds :
                   pools' = MarkedIn(pools, knotID,
                                     IF lastOp'.pool = NULL THEN DOMAIN pools
                                     ELSE {lastOp'.pool})
             /\ poolOrder' = poolOrder
             /\ fired' = <<>> /\ evaluated' = <<>>
         ]_vars

\* markPlayed("b_1") without a pool marked b_1 in "main" and in "side" and
\* left a_1 of "main" unplayed, in the middle of the refresh of "main".
C14_Witness ==
    /\ lastOp = Op("markPlayed", NULL, NULL)
    /\ DOMAIN pools = {"main", "side"}
    /\ DeckHas(pools["main"].deck, "a_1") /\ ~DeckGet(pools["main"].deck, "a_1").played
    /\ DeckHas(pools["main"].deck, "b_1") /\ DeckGet(pools["main"].deck, "b_1").played
    /\ DeckHas(pools["side"].deck, "b_1") /\ DeckGet(pools["side"].deck, "b_1").played
    /\ pools["main"].state = REFRESHING

\* s = saveAsJson(); reset(); loadFromJson(s)
RoundTrip(ps, order) == loadFromJson(reset(ps, NULL), JSONparse(saveAsJson(ps, order)))

\* C15: from every reachable state, save, reset and load of what was saved
\* give every record of every deck the played flag it had, and a load of a
\* blob with a pool or an id that the manager does not have creates no pool
\* and no record.
C15_SaveLoadRoundTrip ==
    /\ [](/\ DOMAIN RoundTrip(pools, poolOrder) = DOMAIN pools
          /\ \A p \in DOMAIN pools : RoundTrip(pools, poolOrder)[p].deck = pools[p].deck)
    /\ [][lastOp'.name = "loadFromJson" =>
             /\ DOMAIN pools' = DOMAIN pools
             /\ poolOrder' = poolOrder
             /\ \A p \in DOMAIN pools :
                   [i \in 1..Len(pools'[p].deck) |-> pools'[p].deck[i].knotID]
                   = [i \in 1..Len(pools[p].deck) |-> pools[p].deck[i].knotID]
         ]_vars

\* Two pools with b_1 played in "side" only and a_1 played in "main": the
\* round trip keeps the three flags apart.
C15_Witness ==
    /\ DOMAIN pools = {"main", "side"}
    /\ DeckHas(pools["main"].deck, "a_1") /\ DeckGet(pools["main"].deck, "a_1").played
    /\ DeckHas(pools["main"].deck, "b_1") /\ ~DeckGet(pools["main"].deck, "b_1").played
    /\ DeckHas(pools["side"].deck, "b_1") /\ DeckGet(pools["side"].deck, "b_1").played
    /\ Played(RoundTrip(pools, poolOrder)) = {<<"main", "a_1">>, <<"side", "b_1">>}
    /\ pools["main"].state = REFRESH_COMPLETE

\* ps is what a load of data leaves of before; BlobMarks: the blob has an
\* entry for (p, id) and the last such entry says played
Loaded(ps, before, data) ==
    LET BlobMarks(p, id) ==
            \E k \in 1..Len(data) :
                /\ data[k].pool = p
                /\ \E j \in 1..Len(data[k].entries) :
                      /\ data[k].entries[j] = <<id, TRUE>>
                      /\ \A later \in (j + 1)..Len(data[k].entries) :
                            data[k].entries[later][1] # id
    IN
    /\ DOMAIN ps = DOMAIN before
    /\ \A p \in DOMAIN ps :
          /\ ps[p].state = NEEDS_REFRESH
          /\ ps[p].hand = <<>> /\ ps[p].handWeighted = <<>> /\ ps[p].refreshList = <<>>
          /\ Len(ps[p].deck) = Len(before[p].deck)
          /\ \A i \in 1..Len(ps[p].deck) :
                ps[p].deck[i].played <=> BlobMarks(p, before[p].deck[i].knotID)

\* C16: loadFromJson(blob), from any state, leaves every pool NEEDS_REFRESH
\* with empty hand, handWeighted and refreshList, and a record of a deck
\* played exactly if the blob marks it played.
C16_LoadResets ==
    /\ [](\A data \in Blobs : Loaded(loadFromJson(pools, data), pools, data))
    /\ [][lastOp'.name = "loadFromJson" =>
             \E data \in Blobs : Loaded(pools', pools, data)]_vars

\* A load left a_1 of "main" played, as the blob says, and b_1, which the
\* blob marks unplayed in "main" and does not name in "side", unplayed.
C16_Witness ==
    /\ lastOp.name = "loadFromJson"
    /\ DOMAIN pools = {"main", "side"}
    /\ DeckHas(pools["main"].deck, "a_1") /\ DeckGet(pools["main"].deck, "a_1").played
    /\ DeckHas(pools["main"].deck, "b_1") /\ ~DeckGet(pools["main"].deck, "b_1").played
    /\ DeckHas(pools["side"].deck, "b_1") /\ ~DeckGet(pools["side"].deck, "b_1").played
    /\ pools["main"].state = NEEDS_REFRESH

\* The last call was a refresh that built the queue of p
Built(p) ==
    /\ lastOp'.name = "refresh"
    /\ \/ lastOp'.pool = NULL /\ p \in DOMAIN pools
       \/ lastOp'.pool = p /\ StateOf(pools, p) # REFRESHING

\* What that refresh got from group predicate gp for the deck of p
GateGave(p, gp, res) ==
    \E k \in 1..Len(evaluated') :
        evaluated'[k] = [fn |-> gp, res |-> res, pool |-> p]

QueueIds(poolState) ==
    {poolState.refreshList[i].knotID : i \in 1..Len(poolState.refreshList)}

\* C17: a refresh in which group predicate G gave false queues no storylet
\* of G and queues every storylet without group predicate or whose group
\* predicate gave true; tick evaluates and puts in hand and handWeighted
\* only storylets it takes off the queue, so for the storylets of G no
\* predicate is evaluated and none is in the hands at completion.
C17_InactiveGateExcludes ==
    [][/\ \A p \in DOMAIN pools' :
             Built(p) =>
                 \A i \in 1..Len(pools'[p].deck) :
                     LET s == pools'[p].deck[i]
                     IN /\ GateGave(p, s.groupPredicate, [kind |-> "boolean", v |-> 0])
                              => s.knotID \notin QueueIds(pools'[p])
                        /\ (s.groupPredicate = NULL
                            \/ GateGave(p, s.groupPredicate, [kind |-> "boolean", v |-> 1]))
                              => s.knotID \in QueueIds(pools'[p])
       /\ lastOp'.name = "tick" =>
             /\ \A p \in DOMAIN pools :
                   /\ Range(pools'[p].hand) \subseteq Range(pools[p].hand) \cup QueueIds(pools[p])
                   /\ Range(pools'[p].handWeighted)
                         \subseteq Range(pools[p].handWeighted) \cup QueueIds(pools[p])
                   /\ QueueIds(pools'[p]) \subseteq QueueIds(pools[p])
             /\ \A k \in 1..Len(evaluated') :
                   \E id \in QueueIds(pools[evaluated'[k].pool]) :
                       evaluated'[k].fn = Underscore(id)
      ]_vars

\* refresh() got false from _a for "main": of the deck a_1, b_1 only b_1 is
\* queued.
C17_Witness ==
    /\ lastOp.name = "refresh"
    /\ \E k \in 1..Len(evaluated) :
          evaluated[k] = [fn |-> "_a", res |-> [kind |-> "boolean", v |-> 0], pool |-> "main"]
    /\ "main" \in DOMAIN pools
    /\ Len(pools["main"].deck) = 2
    /\ QueueIds(pools["main"]) = {"b_1"}

\* C18 as claimed: a group predicate whose evaluation fails with an error
\* (its function exists: addStorylets found it) is treated as inactive: its
\* storylets are not queued.
C18_GateErrorInactive ==
    [][\A p \in DOMAIN pools' :
          Built(p) =>
              \A i \in 1..Len(pools'[p].deck) :
                  LET s == pools'[p].deck[i]
                  IN GateGave(p, s.groupPredicate, [kind |-> "throws", v |-> 0])
                         => s.knotID \notin QueueIds(pools'[p])
      ]_vars

\* C19 as claimed: one refresh call evaluates each distinct group predicate
\* of the pools it builds exactly once, also when the decks of two pools
\* refer to it.
C19_GateOncePerCall ==
    [][lastOp'.name = "refresh" =>
          \A gp \in {"_a", "_b", "_c"} :
              Cardinality({k \in 1..Len(evaluated') : evaluated'[k].fn = gp})
              = IF \E p \in DOMAIN pools' :
                       Built(p) /\ Includes(GroupPredicates(pools'[p].deck), gp)
                THEN 1 ELSE 0
      ]_vars

\* C20: refresh evaluates the group predicates of every pool it builds and
\* nothing else; a storylet predicate is evaluated by tick alone, for a
\* record of the queue that an earlier refresh built for a pool that is
\* REFRESHING; no other call evaluates anything.
C20_GatesBeforePredicates ==
    [][/\ lastOp'.name = "refresh" =>
             /\ \A k \in 1..Len(evaluated') :
                   /\ evaluated'[k].fn \in {"_a", "_b", "_c"}
                   /\ Built(evaluated'[k].pool)
             /\ \A p \in DOMAIN pools' :
                   Built(p) =>
                       \A gp \in Range(GroupPredicates(pools'[p].deck)) :
                           \E res \in Results : GateGave(p, gp, res)
       /\ lastOp'.name = "tick" =>
             \A k \in 1..Len(evaluated') :
                 /\ evaluated'[k].fn \in {Underscore(id) : id \in StoryletIds}
                 /\ pools[evaluated'[k].pool].state = REFRESHING
                 /\ run[evaluated'[k].pool].deckSize > 0
       /\ lastOp'.name \notin {"refresh", "tick"} => evaluated' = <<>>
      ]_vars

\* A tick evaluated a storylet predicate for "main", whose refresh had
\* evaluated _a and queued a_1 and b_1; a record is still on the queue.
C20_Witness ==
    /\ lastOp.name = "tick"
    /\ "main" \in DOMAIN pools
    /\ run["main"].deckSize = 2
    /\ \E k \in 1..Len(evaluated) : evaluated[k].pool = "main"
    /\ pools["main"].state = REFRESHING
    /\ pools["main"].refreshList # <<>>

\* C21: a predicate that throws or gives a value of another type weighs 0
\* for its storylet alone: the tick still takes min(storyletsPerTick, length)
\* records off the queue, the records evaluated in the same tick get their
\* own weight, and the pool is REFRESH_COMPLETE with its event fired as soon
\* as the queue is empty.
C21_FailedPredicateWeighsNothing ==
    [][lastOp'.name = "tick" =>
          \A p \in DOMAIN pools :
              pools[p].state = REFRESHING =>
                  LET n == Min(storyletsPerTick, Len(pools[p].refreshList))
                      new == SubSeq(run'[p].evals, Len(run[p].evals) + 1, Len(run'[p].evals))
                      Failed(e) == e.res.kind \in {"throws", "other"}
                  IN /\ Len(new) = n
                     /\ Len(pools'[p].refreshList) = Len(pools[p].refreshList) - n
                     /\ \A i \in 1..n :
                           /\ Failed(new[i]) =>
                                  Count(pools'[p].handWeighted, new[i].id)
                                  = Count(pools[p].handWeighted, new[i].id)
                           /\ ~Failed(new[i]) =>
                                  Count(pools'[p].handWeighted, new[i].id)
                                  = Count(pools[p].handWeighted, new[i].id)
                                    + Max(0, WeightOf(new[i].res))
                     /\ pools'[p].refreshList = <<>> =>
                            pools'[p].state = REFRESH_COMPLETE /\ Includes(fired', p)
      ]_vars

\* One tick completed the pool although the first predicate threw and the
\* second gave another type: the third storylet, evaluated after them, is in
\* the hand.
C21_Witness ==
    /\ lastOp.name = "tick"
    /\ "main" \in DOMAIN pools
    /\ Includes(fired, "main")
    /\ run["main"].ticks = 1
    /\ Len(run["main"].evals) = 3
    /\ run["main"].evals[1].res.kind = "throws"
    /\ run["main"].evals[2].res.kind = "other"
    /\ WeightOf(run["main"].evals[3].res) > 0
    /\ pools["main"].hand = <<run["main"].evals[3].id>>

\* C24: the tick of the scenario: storyletsPerTick is 5, "main" is
\* REFRESHING with the deck c_1, c_2, c_3 (c_3 tagged once) queued in that
\* order, _c_1 gives 2 and _c_2 gives false.
\* In that tick, with c_3 unplayed and _c_3 giving true, the pool
\* completes with hand = [c_1, c_3] and handWeighted = [c_1, c_1, c_3]; with
\* c_3 played it completes with hand = [c_1] and handWeighted = [c_1, c_1].
C24_Scenario ==
    [][(/\ lastOp'.name = "tick"
        /\ storyletsPerTick = 5
        /\ "main" \in DOMAIN pools
        /\ pools["main"].state = REFRESHING
        /\ [i \in 1..Len(pools["main"].refreshList) |-> pools["main"].refreshList[i].knotID]
               = <<"c_1", "c_2", "c_3">>
        /\ \E k \in 1..Len(evaluated') :
              evaluated'[k] = [fn |-> "_c_1", res |-> [kind |-> "number", v |-> 4],
                               pool |-> "main"]
        /\ \E k \in 1..Len(evaluated') :
              evaluated'[k] = [fn |-> "_c_2", res |-> [kind |-> "boolean", v |-> 0],
                               pool |-> "main"]) =>
          LET c_3 == Deref(pools["main"], pools["main"].refreshList[3])
          IN /\ pools'["main"].state = REFRESH_COMPLETE
             /\ (~c_3.played /\ \E k \in 1..Len(evaluated') :
                    evaluated'[k] = [fn |-> "_c_3", res |-> [kind |-> "boolean", v |-> 1],
                                     pool |-> "main"])
                   => /\ pools'["main"].hand = <<"c_1", "c_3">>
                      /\ pools'["main"].handWeighted = <<"c_1", "c_1", "c_3">>
             /\ c_3.played
                   => /\ c_3.once
                      /\ pools'["main"].hand = <<"c_1">>
                      /\ pools'["main"].handWeighted = <<"c_1", "c_1">>
      ]_vars

\* The second refresh of the scenario is complete: c_3, played, was on the
\* queue, was not asked, and the hands hold c_1 alone.
C24_Witness ==
    /\ lastOp.name = "tick"
    /\ "main" \in DOMAIN pools
    /\ Includes(fired, "main")
    /\ "c_3" \in doneAtStart["main"]
    /\ run["main"].ticks = 1
    /\ Len(run["main"].evals) = 3
    /\ run["main"].evals[3] = [id |-> "c_3", res |-> NotAsked]
    /\ pools["main"].hand = <<"c_1">>
    /\ pools["main"].handWeighted = <<"c_1", "c_1">>

\* C22: reset(pool) on a REFRESHING pool leaves it NEEDS_REFRESH with empty
\* refreshList, hand and handWeighted and every played flag of its deck
\* false, and leaves every other pool as it was; tick fires an event only for
\* a pool that is REFRESHING, and only refresh makes a pool REFRESHING, so
\* no event follows the reset until refresh is called again.
C22_ResetDiscards ==
    [][/\ \A p \in DOMAIN pools :
             (lastOp' = Op("reset", p, NULL) /\ pools[p].state = REFRESHING) =>
                 /\ pools'[p].state = NEEDS_REFRESH
                 /\ pools'[p].refreshList = <<>>
                 /\ pools'[p].hand = <<>> /\ pools'[p].handWeighted = <<>>
                 /\ Len(pools'[p].deck) = Len(pools[p].deck)
                 /\ \A i \in 1..Len(pools'[p].deck) :
                       /\ ~pools'[p].deck[i].played
                       /\ pools'[p].deck[i].knotID = pools[p].deck[i].knotID
                 /\ \A q \in DOMAIN pools \ {p} : pools'[q] = pools[q]
                 /\ fired' = <<>>
       /\ \A p \in DOMAIN pools' :
             /\ Includes(fired', p) => lastOp'.name = "tick" /\ pools[p].state = REFRESHING
             /\ (StateOf(pools, p) # REFRESHING /\ pools'[p].state = REFRESHING) =>
                    lastOp'.name = "refresh"
      ]_vars

\* reset("main") left "main" NEEDS_REFRESH with its deck of two, while "side"
\* kept its complete hand and its played b_1.
C22_Witness ==
    /\ lastOp = Op("reset", "main", NULL)
    /\ DOMAIN pools = {"main", "side"}
    /\ pools["main"].state = NEEDS_REFRESH
    /\ Len(pools["main"].deck) = 2
    /\ pools["side"].state = REFRESH_COMPLETE /\ pools["side"].hand # <<>>
    /\ DeckHas(pools["side"].deck, "b_1") /\ DeckGet(pools["side"].deck, "b_1").played

\* C23: getPlayableStoryletsWithTag(key, value, pool) returns exactly the ids
\* of the hands of the pools asked about (the named one, or every registered
\* pool) that are REFRESH_COMPLETE and whose tag of that name, whatever the
\* case of the name, equals the value; an id is listed once for each such pool.
\* A pool that is unknown, NEEDS_REFRESH or REFRESHING contributes nothing.
\* getFirstPlayableStoryletWithTag returns the first of them, or null.
\* (Asked about: the names loc, LOC, night, once and four values.)
C23_TagQuery ==
    \A q \in {"loc", "LOC", "night", "once"} \X
             {StringValue("library"), StringValue("garden"), StringValue("true"),
              BoolValue(TRUE)},
       pool \in PoolNames \cup {NULL} :
        LET got == getPlayableStoryletsWithTag(pools, poolOrder, q[1], q[2], pool)
            first == getFirstPlayableStoryletWithTag(pools, poolOrder, q[1], q[2], pool)
            asked == IF pool = NULL THEN DOMAIN pools ELSE {pool} \cap DOMAIN pools
            ready == {p \in asked : pools[p].state = REFRESH_COMPLETE}
            Tagged(id) == parseTags(RawTags(id), ToLowerCase(q[1])) = q[2]
        IN /\ \A id \in StoryletIds :
                 Count(got, id) =
                     IF Tagged(id)
                     THEN Cardinality({p \in ready : Includes(pools[p].hand, id)})
                     ELSE 0
           /\ Range(got) \subseteq StoryletIds
           /\ ready = {} => got = <<>>
           /\ first = IF got = <<>> THEN NULL ELSE got[1]

\* "main" is complete with a_1 and b_1 in its hand, "side" is refreshing:
\* the query for loc = library over every pool gives a_1 and b_1 of "main",
\* with the upper-case name as well, and the query of "side" gives nothing.
C23_Witness ==
    /\ DOMAIN pools = {"main", "side"}
    /\ pools["main"].state = REFRESH_COMPLETE
    /\ pools["side"].state = REFRESHING /\ pools["side"].deck # <<>>
    /\ getPlayableStoryletsWithTag(pools, poolOrder, "LOC", StringValue("library"), NULL)
           = <<"a_1", "b_1">>
    /\ getPlayableStoryletsWithTag(pools, poolOrder, "loc", StringValue("library"), "side")
           = <<>>
    /\ getFirstPlayableStoryletWithTag(pools, poolOrder, "night", BoolValue(TRUE), NULL)
           = "b_1"

\* C25 as claimed: a REFRESH with a well-formed state, received by a worker
\* that has had its INIT, posts exactly one REFRESH_COMPLETE for the named
\* pool, or for each pool of the worker when none is named, whatever the
\* predicates do, and posts none for any other pool.
C25_OneCompletionPerPool ==
    [][(worker.story /\ worker'.msg.type = "REFRESH" /\ worker'.msg.stateJson = "state") =>
          LET affected == IF worker'.msg.pool # NULL THEN {worker'.msg.pool}
                          ELSE DOMAIN worker.pools
              done == SelectSeq(worker'.posted, LAMBDA r : r.type = "REFRESH_COMPLETE")
          IN /\ \A p \in affected :
                    Cardinality({i \in 1..Len(done) : done[i].pool = p}) = 1
             /\ \A i \in 1..Len(done) : done[i].pool \in affected
      ]_vars

\* C26 as claimed: a message whose handler fails (a REFRESH before INIT or
\* with a state that does not load, an INIT with content that is not a story,
\* a LOAD_DATABOLT whose json does not parse or gives a pool of the worker a
\* value that is not a list) is answered by exactly one
\* ERROR and nothing else, and leaves the pools of the worker, their ids and
\* their played flags as they were.  (The worker handles the next message
\* whatever came before: a loaded module is the only guard of its actions.)
C26_FailureGivesError ==
    [][(LET msg == worker'.msg
        IN \/ msg.type = "REFRESH" /\ (~worker.story \/ msg.stateJson # "state")
           \/ msg.type = "INIT" /\ msg.content # "story"
           \/ msg.type = "LOAD_DATABOLT"
              /\ \/ \E i \in 1..Len(msg.json) : msg.json[i].kind = "junk"
                 \/ NotIterable(msg.json) \cap DOMAIN worker.pools # {}) =>
          /\ worker'.posted = <<Response("ERROR")>>
          /\ worker'.pools = worker.pools
          /\ worker'.order = worker.order
      ]_vars

\* C27: the worker evaluates no group predicate.  On REFRESH a storylet whose
\* gate has the override false is not evaluated and is in no hand; a storylet
\* whose gate has no override, or the override true, or that has no gate, or
\* any storylet when no overrides are sent, is evaluated unless it is once
\* and played, and is in the hand posted for its pool exactly when its
\* predicate gives true or a positive number.
C27_OverridesGate ==
    [][(worker.story /\ worker'.msg.type = "REFRESH" /\ worker'.msg.stateJson = "state") =>
          LET msg == worker'.msg
              completions == SelectSeq(worker'.posted,
                                       LAMBDA r : r.type = "REFRESH_COMPLETE")
              Off(s) == /\ s.groupPredicate # NULL /\ msg.overrides.given
                        /\ s.groupPredicate \in DOMAIN msg.overrides.map
                        /\ ~msg.overrides.map[s.groupPredicate]
              Call(s, p) == \E i \in 1..Len(worker'.asked) :
                                /\ worker'.asked[i].fn = Underscore(s.knotID)
                                /\ worker'.asked[i].pool = p
              Positive(s, p) == \E i \in 1..Len(worker'.asked) :
                                /\ worker'.asked[i].fn = Underscore(s.knotID)
                                /\ worker'.asked[i].pool = p
                                /\ \/ worker'.asked[i].res = [kind |-> "boolean", v |-> 1]
                                   \/ /\ worker'.asked[i].res.kind = "number"
                                      /\ worker'.asked[i].res.v > 0
          IN /\ \A i \in 1..Len(worker'.asked) :
                    worker'.asked[i].fn \notin {"_a", "_b", "_c"}
             /\ \A i \in 1..Len(completions) :
                    LET done == completions[i]
                        deck == worker.pools[done.pool]
                    IN done.pool \in DOMAIN worker.pools =>
                        \A j \in 1..Len(deck) :
                          /\ Off(deck[j]) =>
                                /\ ~Call(deck[j], done.pool)
                                /\ ~Includes(done.hand, deck[j].knotID)
                                /\ ~Includes(done.handWeighted, deck[j].knotID)
                          /\ ~Off(deck[j]) =>
                                /\ Call(deck[j], done.pool)
                                      <=> ~(deck[j].once /\ deck[j].played)
                                /\ Includes(done.hand, deck[j].knotID)
                                      <=> Positive(deck[j], done.pool)
                                /\ Includes(done.handWeighted, deck[j].knotID)
                                      <=> Positive(deck[j], done.pool)
             /\ \A p \in DOMAIN worker.pools : \A j \in 1..Len(worker.pools[p]) :
                    Off(worker.pools[p][j]) => ~Call(worker.pools[p][j], p)
      ]_vars

\* The worker, with a_1 (gate _a) and b_1 registered in "main", has answered a
\* REFRESH carrying the override _a = false: b_1 alone was evaluated and is
\* the hand of the one completion.
C27_Witness ==
    /\ worker.story /\ worker.msg.type = "REFRESH"
    /\ worker.msg.overrides = [given |-> TRUE, map |-> [g \in {"_a"} |-> FALSE]]
    /\ "main" \in DOMAIN worker.pools /\ Len(worker.pools["main"]) = 2
    /\ ~worker.pools["main"][1].played
    /\ Len(worker.asked) = 1 /\ worker.asked[1].fn = "_b_1"
    /\ Len(worker.posted) = 1 /\ worker.posted[1].type = "REFRESH_COMPLETE"
    /\ worker.posted[1].hand = <<"b_1">>

\* C28: every onRefreshComplete(pool) made by a tick finds the pool
\* REFRESH_COMPLETE with an empty queue, so that getPlayableStorylets(false,
\* pool) gives the callback a hand and not null; there is one callback per
\* event and at most one event per pool and tick.  A refresh(pool) or a
\* refresh() made by the callback leaves the pool REFRESHING with a queue
\* newly built from its whole deck.  A refresh in progress that no callback
\* of the tick restarted loses Min(storyletsPerTick, length) entries of its
\* queue in the tick and has its event in the very tick that empties the
\* queue, not before and not after: so the new refresh completes, with one
\* event, after finitely many ticks.
C28_CallbackSeesComplete ==
    [][lastOp'.name = "tick" =>
          LET saw == runner'.saw
              Restarts == \E i \in 1..Len(saw) : saw[i].did \in {"refreshPool", "refreshAll"}
          IN /\ Len(saw) = Len(fired')
             /\ \A i \in 1..Len(saw) :
                   /\ saw[i].pool = fired'[i]
                   /\ saw[i].state = REFRESH_COMPLETE
                   /\ saw[i].queue = 0
                   /\ saw[i].hand \in Seq(StoryletIds)
                   /\ saw[i].did \in {"refreshPool", "refreshAll"} =>
                         /\ pools'[saw[i].pool].state = REFRESHING
                         /\ Len(pools'[saw[i].pool].refreshList)
                                = Len(pools'[saw[i].pool].deck)
                         /\ pools'[saw[i].pool].hand = <<>>
                   /\ ~Restarts => saw[i].hand = pools'[saw[i].pool].hand
             /\ \A p \in DOMAIN pools :
                   /\ Count(fired', p) <= 1
                   /\ Includes(fired', p) => pools[p].state = REFRESHING \/ Restarts
                   /\ (pools[p].state = REFRESHING /\ ~Restarts) =>
                         LET n == Len(pools[p].refreshList)
                         IN /\ Len(pools'[p].refreshList) = n - Min(storyletsPerTick, n)
                            /\ Includes(fired', p) <=> n <= storyletsPerTick
                            /\ Includes(fired', p) <=> pools'[p].state = REFRESH_COMPLETE
      ]_vars

\* A tick completed "main" while "side" still had two of its three
\* storylets queued; the callback of "main" read the hand b_1 and called
\* refresh(), which left "main" REFRESHING again with b_1 queued.
C28_Witness ==
    /\ lastOp.name = "tick"
    /\ fired = <<"main">>
    /\ Len(runner.saw) = 1
    /\ runner.saw[1].did = "refreshAll"
    /\ runner.saw[1].hand = <<"b_1">>
    /\ pools["main"].state = REFRESHING
    /\ Len(pools["main"].refreshList) = 1
    /\ "side" \in DOMAIN pools /\ pools["side"].state = REFRESHING
    /\ Len(pools["side"].deck) = 3

\* C29 as claimed: loop calls tick and stops exactly when areAllReady()
\* holds, and it stops after finitely many ticks whatever the registry is: a
\* tick of the loop that changed nothing in the registry, which every later
\* tick would repeat, is the last one.
C29_RunnerTerminates ==
    [][runner'.ticks = runner.ticks + 1 =>
          /\ runner'.handle = NULL <=> areAllReady(pools')
          /\ pools' = pools => runner'.handle = NULL
      ]_vars

\* C30 as claimed: once the function returned by runUntilReady has been
\* called, from a handler during a tick of the loop or between two callbacks
\* of the event loop, loop makes no further call of tick.
C30_CancelStopsTicking ==
    [][runner.cancelled => runner'.ticks = runner.ticks]_vars

\* C31: the state of a pool changes only along the lifecycle.  A pool becomes
\* REFRESHING only by refresh, REFRESH_COMPLETE only by tick, from REFRESHING
\* and with its queue empty, and NEEDS_REFRESH only by reset or loadFromJson;
\* addStorylets, markPlayed and pickPlayableStorylet leave the state of every
\* pool as it was (a pool they or refresh create starts from NEEDS_REFRESH).
C31_Lifecycle ==
    [][\A p \in DOMAIN pools' :
          LET old == StateOf(pools, p)
              new == pools'[p].state
          IN /\ p \in DOMAIN pools \/ lastOp'.name \in {"addStorylets", "refresh"}
             /\ (old # new /\ new = REFRESHING) => lastOp'.name = "refresh"
             /\ (old # new /\ new = REFRESH_COMPLETE) =>
                    /\ lastOp'.name = "tick"
                    /\ old = REFRESHING
                    /\ pools'[p].refreshList = <<>>
             /\ (old # new /\ new = NEEDS_REFRESH) =>
                    lastOp'.name \in {"reset", "loadFromJson"}
             /\ lastOp'.name \in {"addStorylets", "markPlayed", "pickPlayableStorylet",
                                  "storyletsPerTick"} => old = new
      ]_vars

\* A tick completed "main", refreshed after a storylet of it was marked,
\* while "side" was never refreshed and stays NEEDS_REFRESH.
C31_Witness ==
    /\ lastOp.name = "tick"
    /\ fired = <<"main">>
    /\ pools["main"].state = REFRESH_COMPLETE
    /\ DeckHas(pools["main"].deck, "a_1") /\ DeckGet(pools["main"].deck, "a_1").played
    /\ "side" \in DOMAIN pools
    /\ pools["side"].state = NEEDS_REFRESH
    /\ pools["side"].deck # <<>>

\* C32: in every reachable state a pool whose refreshList is not empty is
\* REFRESHING: a pool that is NEEDS_REFRESH or REFRESH_COMPLETE has an empty
\* queue.
C32_QueueOnlyWhileRefreshing ==
    \A p \in DOMAIN pools :
        pools[p].refreshList # <<>> => pools[p].state = REFRESHING

\* A tick took one of the two queued records of "main" and left the other
\* queued, the pool still REFRESHING, while "side" is complete with nothing
\* queued.
C32_Witness ==
    /\ lastOp.name = "tick"
    /\ "main" \in DOMAIN pools
    /\ pools["main"].state = REFRESHING
    /\ Len(pools["main"].refreshList) = 1
    /\ Len(pools["main"].hand) = 1
    /\ "side" \in DOMAIN pools
    /\ pools["side"].state = REFRESH_COMPLETE
    /\ pools["side"].refreshList = <<>>
    /\ pools["side"].hand # <<>>

\* C33 as claimed: the played flag of a deck record goes from true to false
\* only through reset, on its own or at the start of loadFromJson; no other
\* call clears it, and the once flag of a record never changes.
C33_PlayedMonotonic ==
    [][\A p \in DOMAIN pools \cap DOMAIN pools' :
          \A i \in 1..Len(pools[p].deck) :
              LET was == pools[p].deck[i]
              IN DeckHas(pools'[p].deck, was.knotID) =>
                    LET is == DeckGet(pools'[p].deck, was.knotID)
                    IN /\ (was.played /\ ~is.played) =>
                              lastOp'.name \in {"reset", "loadFromJson"}
                       /\ is.once = was.once
      ]_vars

\* C34 as claimed: with storyletsPerTick >= 1 and tick called again and
\* again, no reset made, a pool that is REFRESHING reaches REFRESH_COMPLETE
\* and its completion event is fired.
C34_TicksComplete ==
    \A p \in PoolNames :
        (p \in DOMAIN pools /\ pools[p].state = REFRESHING)
            ~> (p \in DOMAIN pools /\ pools[p].state = REFRESH_COMPLETE /\ Includes(fired, p))

\* --- Ninth specification: the manager and a worker fed the same operations.
\* The class that owns the Worker is not part of these sources; the protocol
\* has one message per operation of the manager, so each action below makes
\* the call on the manager and hands the message of that call to the worker,
\* which handles it before anything else happens.  INIT is sent once, first.

\* storylets of REGISTER_STORYLETS: the records addStorylets(name, pool) set
Registered(poolState, name) ==
    LET list == SelectSeq(poolState.deck, LAMBDA s : StartsWithPrefix(s.knotID, name))
    IN [i \in 1..Len(list) |->
           [knotID |-> list[i].knotID, once |-> list[i].once,
            groupPredicate |-> list[i].groupPredicate]]

\* Calls of tick() until the pool is REFRESH_COMPLETE
RECURSIVE Polled(_, _, _)
Polled(poolState, answers, budget) ==
    IF poolState.state # REFRESHING THEN poolState
    ELSE Polled(tickPool(poolState, answers, budget).pool, answers, budget)

MirrorRegister ==
    /\ worker.story
    /\ \E r \in {<<"a", "main">>, <<"b", "main">>, <<"b", "side">>} :
          /\ r[2] = "side" => "main" \in DOMAIN pools
          /\ pools' = addStorylets(pools, r[1], r[2])
          /\ poolOrder' = getOrCreateOrder(poolOrder, r[2])
          /\ lastOp' = Op("addStorylets", r[2], NULL)
          /\ worker' = handleMessage(worker,
                          [Message("REGISTER_STORYLETS") EXCEPT
                              !.pool = r[2],
                              !.storylets = Registered(pools'[r[2]], r[1])],
                          [id \in StoryletIds |-> NotAsked])
    /\ run' = [p \in DOMAIN pools' |-> NoRun]
    /\ fired' = <<>>
    /\ evaluated' = <<>>
    /\ UNCHANGED <<storyletsPerTick, tallies, runner>>

MirrorMark ==
    /\ worker.story
    /\ \E knotID \in {"a_1", "b_1"}, pool \in DOMAIN pools :
          /\ pools' = markPlayed(pools, knotID, pool)
          /\ lastOp' = Op("markPlayed", pool, NULL)
          /\ worker' = handleMessage(worker,
                          [Message("MARK_PLAYED") EXCEPT !.knotID = knotID, !.pool = pool],
                          [id \in StoryletIds |-> NotAsked])
    /\ fired' = <<>>
    /\ evaluated' = <<>>
    /\ UNCHANGED <<poolOrder, storyletsPerTick, run, tallies, runner>>

MirrorReset ==
    /\ worker.story
    /\ \E pool \in DOMAIN pools \cup {NULL} :
          /\ pools' = reset(pools, pool)
          /\ lastOp' = Op("reset", pool, NULL)
          /\ worker' = handleMessage(worker, [Message("RESET") EXCEPT !.pool = pool],
                                     [id \in StoryletIds |-> NotAsked])
    /\ fired' = <<>>
    /\ evaluated' = <<>>
    /\ UNCHANGED <<poolOrder, storyletsPerTick, run, tallies, runner>>

\* The json sent is the text the manager itself is given
MirrorLoad ==
    /\ worker.story
    /\ \E data \in Blobs :
          /\ pools' = loadFromJson(pools, data)
          /\ worker' = handleMessage(worker,
                          [Message("LOAD_DATABOLT") EXCEPT !.json = JSONstringify(data)],
                          [id \in StoryletIds |-> NotAsked])
    /\ lastOp' = Op("loadFromJson", NULL, NULL)
    /\ fired' = <<>>
    /\ evaluated' = <<>>
    /\ UNCHANGED <<poolOrder, storyletsPerTick, run, tallies, runner>>

\* refresh(pool) and the ticks that complete it on the manager; REFRESH with
\* the results of the group predicates as groupOverrides on the worker, whose
\* story gives each predicate the answer the manager's story gives: true, 2,
\* 1.5, -0.5 or a thrown error
MirrorRefresh ==
    /\ worker.story
    /\ \E pool \in DOMAIN pools :
       \E gateAnswers \in [GatesOf(pools, pool) -> CoarseGateResults],
          asked \in [{pools[pool].deck[i].knotID : i \in 1..Len(pools[pool].deck)}
                        -> {[kind |-> "boolean", v |-> 1], [kind |-> "number", v |-> 4],
                            [kind |-> "number", v |-> 3], [kind |-> "number", v |-> -1],
                            [kind |-> "throws", v |-> 0]}] :
          LET answers == [id \in StoryletIds |->
                             IF id \in DOMAIN asked THEN asked[id] ELSE NotAsked]
              r == refresh(pools, poolOrder, pool, gateAnswers)
              gates == AnswersFor(pools, pool, gateAnswers)
          IN /\ pools' = [r.pools EXCEPT
                             ![pool] = Polled(@, answers, storyletsPerTick)]
             /\ evaluated' = GateCalls(r.pools, r.built, gateAnswers)
             /\ lastOp' = Op("tick", pool, NULL)
             /\ fired' = <<pool>>
             /\ worker' = handleMessage(worker,
                             [Message("REFRESH") EXCEPT
                                 !.pool = pool, !.stateJson = "state",
                                 !.overrides =
                                     [given |-> TRUE,
                                      map |-> [gp \in DOMAIN gates |->
                                                  GroupActive(gates[gp])]]],
                             answers)
    /\ UNCHANGED <<poolOrder, storyletsPerTick, run, tallies, runner>>

SpecMirror ==
    Init /\ [][ \/ Spawn
              \/ (~worker.story /\ WorkerInit)
              \/ MirrorRegister
              \/ MirrorMark
              \/ MirrorReset
              \/ MirrorLoad
              \/ MirrorRefresh ]_vars

\* C35 as claimed: when the worker has handled REFRESH for a pool whose deck
\* it holds as the manager does, with the manager's group predicate results
\* as groupOverrides and a story that answers as the manager's, the
\* REFRESH_COMPLETE it posts for the pool carries the hand and handWeighted
\* the manager holds, refreshed and ticked to REFRESH_COMPLETE.
C35_BackendsAgree ==
    \A p \in DOMAIN pools :
        (/\ worker.msg.type = "REFRESH"
         /\ worker.msg.pool = p
         /\ lastOp = Op("tick", p, NULL)
         /\ p \in DOMAIN worker.pools
         /\ worker.pools[p] = pools[p].deck
         /\ pools[p].state = REFRESH_COMPLETE)
        => \E i \in 1..Len(worker.posted) :
              /\ worker.posted[i].type = "REFRESH_COMPLETE"
              /\ worker.posted[i].pool = p
              /\ worker.posted[i].hand = pools[p].hand
              /\ worker.posted[i].handWeighted = pools[p].handWeighted

\* C36 as claimed: once the worker has handled the message of each operation
\* made on the manager, it holds the pools of the manager, and each of them
\* holds the ids of the manager's deck with their played and once values.
C36_MirrorInSync ==
    worker.story =>
        /\ DOMAIN worker.pools = DOMAIN pools
        /\ \A p \in DOMAIN pools \cap DOMAIN worker.pools :
              {<<s.knotID, s.played, s.once>> : s \in Range(worker.pools[p])}
                  = {<<s.knotID, s.played, s.once>> : s \in Range(pools[p].deck)}

\* --- Tenth specification: the port of the worker.  postMessage appends to
\* the port; the listener is called with one message at a time, oldest
\* first, and every handler returns before the next call (no handler awaits).

\* The most messages waiting in the port
MaxInbox == 2

\* The worker once its listener has been called with each message of a
\* sequence, in order
RECURSIVE Handles(_, _)
Handles(w, msgs) ==
    IF msgs = <<>> THEN w
    ELSE Handles(handleMessage(w, Head(msgs), [id \in StoryletIds |-> NotAsked]),
                 Tail(msgs))

\* A listener called with the newest message of the port
Dequeue_last(inbox) ==
    [next |-> inbox[Len(inbox)], rest |-> SubSeq(inbox, 1, Len(inbox) - 1)]

\* The message the listener is called with next, and what stays in the port
Dequeue(inbox) == [next |-> Head(inbox), rest |-> Tail(inbox)]

\* worker.postMessage(msg), once INIT is answered
Send ==
    /\ worker.story
    /\ Len(worker.inbox) < MaxInbox
    /\ \E msg \in
             { [Message("REGISTER_STORYLETS") EXCEPT
                   !.pool = r.pool, !.storylets = r.storylets] : r \in WorkerRegistrations }
             \cup { [Message("MARK_PLAYED") EXCEPT !.knotID = k, !.pool = "main"] :
                       k \in {"a_1", "b_1"} }
             \cup { Message("RESET"),
                    [Message("REFRESH") EXCEPT !.pool = "main", !.stateJson = "state"] }
             \cup { [Message("LOAD_DATABOLT") EXCEPT !.json = json] :
                       json \in {t \in WorkerTexts : \A i \in 1..Len(t) : t[i].kind # "junk"} } :
          worker' = [worker EXCEPT
                        !.inbox = Append(@,
                            [msg |-> msg,
                             expect |-> Handles(worker,
                                            [i \in 1..Len(worker.inbox) |->
                                                worker.inbox[i].msg]).pools])]
    /\ UNCHANGED <<managerVars, runner>>

\* One call of the listener; the story of a REFRESH answers the predicates
Deliver ==
    /\ worker.inbox # <<>>
    /\ \E asked \in [{"a_1", "b_1"} -> {[kind |-> "boolean", v |-> 1],
                                         [kind |-> "boolean", v |-> 0]}] :
          LET d == Dequeue(worker.inbox)
          IN worker' = handleMessage([worker EXCEPT !.inbox = d.rest], d.next.msg,
                          [id \in StoryletIds |->
                              IF id \in DOMAIN asked THEN asked[id] ELSE NotAsked])
    /\ UNCHANGED <<managerVars, runner>>

SpecChannel ==
    Init /\ [][ \/ Spawn
              \/ (~worker.story /\ WorkerInit)
              \/ Send
              \/ Deliver ]_vars

UnityAddStorylets ==
    /\ \E r \in {<<"a", "main">>, <<"b", "main">>, <<"b", "side">>} :
          /\ r[2] = "side" => "main" \in DOMAIN pools
          /\ pools' = [addStorylets(pools, r[1], r[2]) EXCEPT ![r[2]].state = NEEDS_REFRESH]
          /\ poolOrder' = getOrCreateOrder(poolOrder, r[2])
          /\ lastOp' = Op("AddStorylets", r[2], NULL)
    /\ run' = [p \in DOMAIN pools' |-> NoRun]
    /\ fired' = <<>>
    /\ evaluated' = <<>>
    /\ UNCHANGED <<storyletsPerTick, tallies, worker, runner>>

\* Refresh(pool), and Refresh() for every registered pool
UnityRefresh ==
    /\ \E pool \in PoolNames \cup {NULL} :
          /\ pool = "side" => "main" \in DOMAIN pools
          /\ LET created == IF pool # NULL THEN getOrCreatePoolState(pools, pool)
                             ELSE pools
             IN \E gateAnswers \in [GatesOf(created, pool) -> CoarseGateResults] :
                   /\ pools' = [p \in DOMAIN created |->
                                   IF pool \in {NULL, p}
                                   THEN StartRefresh(created[p],
                                                     AnswersFor(created, p, gateAnswers))
                                   ELSE created[p]]
                   /\ poolOrder' = IF pool # NULL THEN getOrCreateOrder(poolOrder, pool)
                                   ELSE poolOrder
                   /\ evaluated' = GateCalls(created,
                                       IF pool # NULL THEN <<pool>> ELSE poolOrder,
                                       gateAnswers)
          /\ lastOp' = Op("Refresh", pool, NULL)
    /\ run' = [p \in DOMAIN pools' |-> NoRun]
    /\ fired' = <<>>
    /\ UNCHANGED <<storyletsPerTick, tallies, worker, runner>>

\* Tick(): OnRefreshComplete is invoked for the pools it completes
UnityTick ==
    /\ \E asked \in [Asked(pools, storyletsPerTick) -> CoarseResults] :
          LET answers == [id \in StoryletIds |->
                             IF id \in DOMAIN asked THEN asked[id] ELSE NotAsked]
              t == tick(pools, answers, storyletsPerTick)
          IN /\ pools' = [p \in DOMAIN pools |-> t[p].pool]
             /\ fired' = SelectSeq(poolOrder, LAMBDA p : t[p].callback)
             /\ evaluated' = PredicateCalls(pools, poolOrder, answers, storyletsPerTick)
    /\ lastOp' = Op("Tick", NULL, NULL)
    /\ UNCHANGED <<poolOrder, storyletsPerTick, run, tallies, worker, runner>>

\* StoryletsToProcessPerFrame is a public field the host assigns
UnitySetPerFrame ==
    /\ \E n \in 1..MaxBudget : storyletsPerTick' = n
    /\ storyletsPerTick' # storyletsPerTick
    /\ lastOp' = Op("StoryletsToProcessPerFrame", NULL, NULL)
    /\ fired' = <<>>
    /\ evaluated' = <<>>
    /\ UNCHANGED <<pools, poolOrder, run, tallies, worker, runner>>

SpecUnity ==
    Init /\ [][ \/ UnityAddStorylets
              \/ UnityRefresh
              \/ UnityTick
              \/ UnitySetPerFrame ]_vars

\* C38 as claimed: in the Unity implementation Refresh(pool) on a pool that
\* is REFRESHING changes nothing of the pool: State, RefreshList, Hand and
\* HandWeighted stay as they were.
C38_UnityRefreshIgnored ==
    [][\A p \in DOMAIN pools :
          (/\ lastOp' = Op("Refresh", p, NULL)
           /\ pools[p].state = REFRESHING)
          => pools'[p] = pools[p]
      ]_vars

\* C39 as claimed: in every state of the Unity implementation a pool whose
\* RefreshList is not empty is REFRESHING.
C39_UnityQueueOnlyWhileRefreshing ==
    \A p \in DOMAIN pools : pools[p].refreshList # <<>> => pools[p].state = REFRESHING

\* C40: in every state, for every pool: each id of hand is a key of the deck,
\* no id is twice in hand, hand and handWeighted hold the same ids, and a
\* pool that is NEEDS_REFRESH has both empty.
C40_HandsWellFormed ==
    \A p \in DOMAIN pools :
        LET ps == pools[p]
        IN /\ \A i \in 1..Len(ps.hand) : DeckHas(ps.deck, ps.hand[i])
           /\ \A i, j \in 1..Len(ps.hand) : ps.hand[i] = ps.hand[j] => i = j
           /\ Range(ps.handWeighted) = Range(ps.hand)
           /\ ps.state = NEEDS_REFRESH => ps.hand = <<>> /\ ps.handWeighted = <<>>

\* A completed pool holding two ids, one of them twice in handWeighted, and a
\* record of the deck that is in neither
C40_Witness ==
    /\ "main" \in DOMAIN pools
    /\ pools["main"].state = REFRESH_COMPLETE
    /\ Len(pools["main"].hand) = 2
    /\ Len(pools["main"].handWeighted) = 3
    /\ Len(pools["main"].deck) = 3
    /\ lastOp.name = "tick"

====
